---- MODULE Spec2Model ----
(***************************************************************************)
(* Room timeline reconciliation of the weechat matrix plugin               *)
(* (src/src/room/mod.rs): pagination cursor, single-flight guard, outgoing *)
(* message queue and in-place mutation of printed buffer lines.            *)
(*                                                                         *)
(* One room is modelled.  Every action is one run of a handler between two *)
(* points at which the foreground executor can switch tasks: the transport *)
(* calls (Connection::room_messages, Connection::send_message).  The       *)
(* roster lookups (Members::get) are taken to answer without a task        *)
(* switch.                                                                 *)
(***************************************************************************)
EXTENDS Naturals, Sequences, FiniteSets

\* ------------------------------------------------------------- bounds
MaxLines == 3
MaxTime == 2
MaxSends == 1
MaxPage == 1
\* The capacity of the channel, which the program sets to 10_000.
MaxChannel == 2
\* The sync responses handled.
MaxResponses == 2
\* The typing-notice tasks spawned and not yet done.
MaxTyping == 2

\* ------------------------------------------------------------- universe
EventIds == {"$e1", "$e2"}
TxnName == <<"t1", "t2", "t3">>
OwnEvName == <<"$s1", "$s2", "$s3">>
TxnIds == {TxnName[i] : i \in 1..MaxSends}
Times == 1..MaxTime
Tokens == {"tokA", "tokB"}
NoToken == "none"

\* Room topics; a room without topic shows the empty title.
NoTopic == ""
Topics == {"topicA", "topicB"}

OwnUser == "@me"
Roster == {"@me", "@alice"}
Users == Roster \cup {"@ghost"}

\* A message body as lines of graphemes.
Bodies == {<< <<"a">> >>, << <<"b">>, <<"c">> >>}
Contents == {[msgtype |-> "text", body |-> b, edits |-> "none"] : b \in Bodies}
              \cup {[msgtype |-> "emote", body |-> << <<"a">> >>, edits |-> "none"]}

VARIABLES
    lines,              \* the buffer's lines, oldest first
    prev_batch,         \* MatrixRoom.prev_batch
    last_prev_batch,    \* room.last_prev_batch() of the SDK room
    mutex_held,         \* IntMutex.inner is locked
    locked,             \* IntMutex.locked
    page_reqs,          \* cursors of the room_messages calls still awaited
    outgoing_messages,  \* MessageQueue.queue
    sends,              \* per transaction id: the send_message() task
    seen,               \* event ids the server has already delivered
    clock,              \* wall clock (seconds)
    exhausted,          \* an empty page answered a Backwards request (observation only)
    crashed,            \* a handler panicked
    title,              \* the buffer's title (the room topic shown)
    forward_due,        \* restored, and no Forward page handled yet (observation only)
    last,               \* what the last handler run did (observation only)
    cells,              \* the Rc cells of the rooms: cursor, guard, echo queue
    handle_reqs,        \* room_messages calls awaited, with the handle that made them
    channel,            \* the envelopes buffered in the channel(10_000), oldest first
    sync_loop,          \* Connection::sync_loop: where it is and what it still sends
    member_tasks,       \* the spawned member syncs and the envelopes they still send
    receiver,           \* Connection::response_receiver and the server it upgrades
    handled,            \* per room, the envelope the receiver handled last
    input,              \* the text in the input line of the room's buffer
    typing_tasks        \* the tasks update_typing_notice spawned and not yet done

\* The state of the one room whose timeline is modelled line by line.
room_vars == <<lines, prev_batch, last_prev_batch, mutex_held, locked, page_reqs,
               outgoing_messages, sends, seen, clock, exhausted, crashed, title,
               forward_due>>
\* The state outside of that room: the handles of several rooms.
handle_vars == <<cells, handle_reqs>>
\* The channel between the sync loop and the receiver of a server.
channel_vars == <<channel, sync_loop, member_tasks, receiver, handled>>
\* The input line of the room's buffer and its typing notices.
typing_vars == <<input, typing_tasks>>
elsewhere == <<handle_vars, channel_vars, typing_vars>>

vars == <<room_vars, last, elsewhere>>

\* ------------------------------------------------------------- cursor
NoneBatch == [dir |-> "None", token |-> NoToken]
Forward(t) == [dir |-> "Forward", token |-> t]
Backwards(t) == [dir |-> "Backwards", token |-> t]
MapBatch(t, dir) == IF t = NoToken THEN NoneBatch ELSE [dir |-> dir, token |-> t]
PrevBatch == {NoneBatch} \cup {Forward(t) : t \in Tokens} \cup {Backwards(t) : t \in Tokens}

\* ------------------------------------------------------------- tags
IdTag(event_id) == <<"matrix_id", event_id>>
SenderTag(user) == <<"matrix_sender", user>>
EchoTag(uuid) == <<"matrix_echo", uuid>>
RedactedTag == <<"matrix_redacted", "">>
SelfTag == <<"class", "self_msg">>
MsgTag == <<"class", "notify_message">>

\* ------------------------------------------------------------- roster
MembersGet(user) == user \in Roster
Nick(user) == user

\* ------------------------------------------------------------- rendering
RenderedLines(body, tags) ==
    [i \in 1..Len(body) |-> [message |-> body[i], tags |-> tags]]

RenderWithPrefix(send_time, event_id, sender, content) ==
    [prefix |-> IF content.msgtype = "emote" THEN "*" ELSE Nick(sender),
     message_timestamp |-> send_time,
     lines |-> RenderedLines(
         IF content.msgtype = "emote"
         THEN [i \in 1..Len(content.body) |-> <<Nick(sender)>> \o content.body[i]]
         ELSE content.body,
         {IdTag(event_id), SenderTag(sender)})]

RenderWithPrefixForEcho(sender, uuid, content, now) ==
    [prefix |-> Nick(sender),
     message_timestamp |-> now,
     lines |-> RenderedLines(
         [i \in 1..Len(content.body) |-> <<"darkgray">> \o content.body[i]],
         {EchoTag(uuid)})]

AddTags(rendered, tag) ==
    [rendered EXCEPT !.lines =
        [i \in 1..Len(rendered.lines) |->
            [rendered.lines[i] EXCEPT !.tags = @ \cup {tag}]]]
AddSelfTags(rendered) == AddTags(rendered, SelfTag)
AddMsgTags(rendered) == AddTags(rendered, MsgTag)

\* ------------------------------------------------------------- buffer
PrintDateTags(buf, date, tags, prefix, message, now) ==
    Append(buf, [date |-> date, date_printed |-> now, tags |-> tags,
                 prefix |-> prefix, message |-> message])

RECURSIVE PrintLinesFrom(_, _, _, _)
PrintLinesFrom(buf, rendered, i, now) ==
    IF i > Len(rendered.lines) THEN buf
    ELSE PrintLinesFrom(
            PrintDateTags(buf, rendered.message_timestamp, rendered.lines[i].tags,
                          rendered.prefix, rendered.lines[i].message, now),
            rendered, i + 1, now)

PrintRenderedEvent(buf, rendered, now) == PrintLinesFrom(buf, rendered, 1, now)

\* An insertion in front of the copies of the same date.
RECURSIVE InsertByDateUnstable(_, _)
InsertByDateUnstable(sorted, l) ==
    IF sorted = <<>> THEN <<l>>
    ELSE IF sorted[Len(sorted)].date < l.date THEN Append(sorted, l)
    ELSE Append(InsertByDateUnstable(SubSeq(sorted, 1, Len(sorted) - 1), l),
                sorted[Len(sorted)])

\* Stable insertion of a line copy behind every copy whose date is not larger.
RECURSIVE InsertByDate(_, _)
InsertByDate(sorted, l) ==
    IF sorted = <<>> THEN <<l>>
    ELSE IF sorted[Len(sorted)].date <= l.date THEN Append(sorted, l)
    ELSE Append(InsertByDate(SubSeq(sorted, 1, Len(sorted) - 1), l), sorted[Len(sorted)])

RECURSIVE SortedCopies(_, _)
SortedCopies(buf, n) ==
    IF n = 0 THEN <<>> ELSE InsertByDate(SortedCopies(buf, n - 1), buf[n])

SortMessages(buf) ==
    LET copies == SortedCopies(buf, Len(buf))
    IN [i \in 1..Len(buf) |-> copies[i]]

IsSorted(buf) == \A i \in 1..Len(buf) - 1 : buf[i].date <= buf[i + 1].date

\* ------------------------------------------------------------- guard
\* A try_lock that does not see the holder.
TryLockIgnoresHolder == TRUE
\* IntMutex::try_lock succeeds exactly when the inner mutex is free.
TryLock == ~mutex_held
\* The flag as try_lock stores it, and as the drop of the guard stores it.
LockedByTryLock == TRUE
\* A guard whose drop leaves the flag as it was.
LockedByDropStale(flag) == flag
LockedByDrop(flag) == FALSE
\* IntMutex::locked, read by MatrixRoom::is_busy and the status bar item.
IsBusy(flag) == flag
\* Status::callback: the busy sign shown after a bar item refresh.
BarItemUpdate(flag) == <<IsBusy(flag)>>

Did(op, outcome, transport, refreshes, target) ==
    [op |-> op, outcome |-> outcome, transport |-> transport,
     refreshes |-> refreshes, target |-> target]
\* What the handling of a page did: end is the continuation token of the
\* response, NoToken when it has none.
DidPage(outcome, refreshes, target, end) ==
    [op |-> "room_messages", outcome |-> outcome, transport |-> FALSE,
     refreshes |-> refreshes, target |-> target, end |-> end]

\* ------------------------------------------------------------- events
NoContent == [msgtype |-> "text", body |-> << <<"a">> >>, edits |-> "none"]
EditContents == {[c EXCEPT !.edits = e] : c \in Contents, e \in EventIds}

MessageEvents(ids, contents) ==
    {[kind |-> "message", event_id |-> e, sender |-> u, ts |-> t, content |-> c] :
        e \in ids, u \in Users, t \in Times, c \in contents}
OtherEvents ==
    {[kind |-> k, event_id |-> "", sender |-> OwnUser, ts |-> 1, content |-> NoContent] :
        k \in {"state", "redacted_message", "redacted_state", "undeserializable"}}

IsEdit(event) == event.kind = "message" /\ event.content.edits # "none"

\* ------------------------------------------------------------- pagination
\* A page handler without the is_edit() test: edits are printed as messages.
HandleRoomEventPrintsEdits(buf, event, now) ==
    IF event.kind = "message"
    THEN IF MembersGet(event.sender)
         THEN [buf |-> PrintRenderedEvent(buf,
                          RenderWithPrefix(event.ts, event.event_id, event.sender,
                                           event.content), now),
               panic |-> FALSE]
         ELSE [buf |-> buf, panic |-> TRUE]
    ELSE [buf |-> buf, panic |-> FALSE]

\* A page handler that prints a line for every event that is not a message.
HandleRoomEventPrintsState(buf, event, now) ==
    IF event.kind = "message" /\ ~IsEdit(event)
    THEN IF MembersGet(event.sender)
         THEN [buf |-> PrintRenderedEvent(buf,
                          RenderWithPrefix(event.ts, event.event_id, event.sender,
                                           event.content), now),
               panic |-> FALSE]
         ELSE [buf |-> buf, panic |-> TRUE]
    ELSE IF event.kind = "message" THEN [buf |-> buf, panic |-> FALSE]
    ELSE [buf |-> PrintDateTags(buf, event.ts, {}, "", <<event.kind>>, now), panic |-> FALSE]

\* A page handler that treats a message carrying a queued transaction id as
\* the live handler does: the event is left to the confirmation, not printed.
HandleRoomEventConsultsQueue(buf, event, now) ==
    IF event.kind = "message" /\ ~IsEdit(event)
       /\ ~("txn" \in DOMAIN event /\ \E e \in outgoing_messages : e.uuid = event.txn)
    THEN IF MembersGet(event.sender)
         THEN [buf |-> PrintRenderedEvent(buf,
                          RenderWithPrefix(event.ts, event.event_id, event.sender,
                                           event.content), now),
               panic |-> FALSE]
         ELSE [buf |-> buf, panic |-> TRUE]
    ELSE [buf |-> buf, panic |-> FALSE]

\* MatrixRoom::handle_room_event on one event of a page.  The result is the
\* buffer and whether the handler panicked on an unresolved sender.
HandleRoomEvent(buf, event, now) ==
    IF event.kind = "message" /\ ~IsEdit(event)
    THEN IF MembersGet(event.sender)
         THEN [buf |-> PrintRenderedEvent(buf,
                          RenderWithPrefix(event.ts, event.event_id, event.sender,
                                           event.content), now),
               panic |-> FALSE]
         ELSE [buf |-> buf, panic |-> TRUE]
    ELSE [buf |-> buf, panic |-> FALSE]

RECURSIVE HandleChunk(_, _, _)
HandleChunk(buf, chunk, now) ==
    IF chunk = <<>> THEN [buf |-> buf, panic |-> FALSE]
    ELSE IF Head(chunk).kind = "undeserializable" THEN HandleChunk(buf, Tail(chunk), now)
    ELSE LET r == HandleRoomEvent(buf, Head(chunk), now)
         IN IF r.panic THEN r ELSE HandleChunk(r.buf, Tail(chunk), now)

\* A cursor update without the test for an empty page.
NextBatchNoEmptyTest(current, chunk, end) ==
    IF current.dir = "Forward" THEN Backwards(current.token)
    ELSE MapBatch(end, "Backwards")

\* A resolution that keeps the cursor when the page holds events.
NextBatchIgnoresEnd(current, chunk, end) ==
    IF current.dir = "Forward" THEN Backwards(current.token)
    ELSE IF chunk = <<>> THEN NoneBatch
    ELSE current

\* The cursor and buffer written when a page has been handled.
NextBatch(current, chunk, end) ==
    IF current.dir = "Forward" THEN Backwards(current.token)
    ELSE IF chunk = <<>> THEN NoneBatch
    ELSE MapBatch(end, "Backwards")

SortAfterPage(current, chunk, buf) ==
    IF current.dir = "Forward" \/ chunk # <<>> THEN SortMessages(buf) ELSE buf

\* A get_messages without the early return.
HasCursorAlways(current) == TRUE
\* The early return of get_messages when there is no cursor.
HasCursor(current) == current # NoneBatch

\* MatrixRoom::get_messages up to the transport call.
GetMessages(connected) ==
    /\ ~crashed
    /\ UNCHANGED <<lines, prev_batch, last_prev_batch, exhausted, outgoing_messages,
                   sends, seen, clock, crashed, title, forward_due, elsewhere>>
    /\ IF ~HasCursor(prev_batch)
       THEN /\ last' = Did("get_messages", "no_cursor", FALSE, <<>>, "")
            /\ UNCHANGED <<mutex_held, locked, page_reqs>>
       ELSE IF ~TryLock
       THEN /\ last' = Did("get_messages", "busy", FALSE, <<>>, "")
            /\ UNCHANGED <<mutex_held, locked, page_reqs>>
       ELSE IF connected
       THEN /\ mutex_held' = TRUE
            /\ locked' = LockedByTryLock
            /\ page_reqs' = Append(page_reqs, prev_batch)
            /\ last' = Did("get_messages", "requested", TRUE, BarItemUpdate(locked'), "")
       ELSE \* no connection: the guard is taken and dropped in the same run
            /\ mutex_held' = FALSE
            /\ locked' = LockedByDrop(LockedByTryLock)
            /\ page_reqs' = page_reqs
            /\ last' = Did("get_messages", "not_connected", FALSE,
                           BarItemUpdate(LockedByTryLock) \o BarItemUpdate(locked'), "")

RemoveAt(s, i) == SubSeq(s, 1, i - 1) \o SubSeq(s, i + 1, Len(s))

\* The arm of handle_room_event that the last event of a page took.
LastArm(chunk) ==
    IF chunk = <<>> THEN ""
    ELSE IF IsEdit(chunk[Len(chunk)]) THEN "edit"
    ELSE chunk[Len(chunk)].kind

\* The rest of get_messages once room_messages answered Ok(r) to request i.
RoomMessagesOk(i, chunk, end) ==
    /\ ~crashed
    /\ i \in 1..Len(page_reqs)
    /\ LET r == HandleChunk(lines, chunk, clock)
       IN /\ Len(r.buf) <= MaxLines
          /\ seen' = seen \cup ({chunk[k].event_id : k \in 1..Len(chunk)} \ {"", "$edit"})
          /\ IF r.panic
             THEN /\ crashed' = TRUE
                  /\ lines' = r.buf
                  /\ last' = Did("room_messages", "panic", FALSE, <<>>, "")
                  /\ UNCHANGED <<prev_batch, mutex_held, locked, page_reqs, exhausted,
                                 forward_due>>
             ELSE /\ prev_batch' = NextBatch(prev_batch, chunk, end)
                  /\ forward_due' = (forward_due /\ page_reqs[i].dir # "Forward")
                  /\ lines' = SortAfterPage(prev_batch, chunk, r.buf)
                  /\ mutex_held' = FALSE
                  /\ locked' = LockedByDrop(locked)
                  /\ page_reqs' = RemoveAt(page_reqs, i)
                  /\ exhausted' = (exhausted \/
                                    (page_reqs[i].dir = "Backwards" /\ chunk = <<>>))
                  /\ last' = DidPage(IF chunk = <<>> THEN "empty_page" ELSE "page",
                                     BarItemUpdate(locked'), LastArm(chunk), end)
                  /\ UNCHANGED crashed
    /\ UNCHANGED <<last_prev_batch, outgoing_messages, sends, clock, title, elsewhere>>

\* An error branch that gives the cursor up.
RoomMessagesErrClearsCursor(i) ==
    /\ ~crashed
    /\ i \in 1..Len(page_reqs)
    /\ mutex_held' = FALSE
    /\ locked' = LockedByDrop(locked)
    /\ page_reqs' = RemoveAt(page_reqs, i)
    /\ prev_batch' = NoneBatch
    /\ last' = Did("room_messages", "error", FALSE, BarItemUpdate(locked'), "")
    /\ UNCHANGED <<lines, last_prev_batch, exhausted, outgoing_messages,
                   sends, seen, clock, crashed, title, forward_due, elsewhere>>

\* The rest of get_messages once room_messages answered Err(_) to request i.
RoomMessagesErr(i) ==
    /\ ~crashed
    /\ i \in 1..Len(page_reqs)
    /\ mutex_held' = FALSE
    /\ locked' = LockedByDrop(locked)
    /\ page_reqs' = RemoveAt(page_reqs, i)
    /\ last' = Did("room_messages", "error", FALSE, BarItemUpdate(locked'), "")
    /\ UNCHANGED <<lines, prev_batch, last_prev_batch, exhausted, outgoing_messages,
                   sends, seen, clock, crashed, title, forward_due, elsewhere>>

\* MatrixRoom::reset_prev_batch
ResetPrevBatch ==
    /\ ~crashed
    /\ prev_batch' = NoneBatch
    /\ last' = Did("reset_prev_batch", "", FALSE, <<>>, "")
    /\ UNCHANGED <<lines, last_prev_batch, exhausted, mutex_held, locked, page_reqs,
                   outgoing_messages, sends, seen, clock, crashed, title,
                   forward_due, elsewhere>>

\* ------------------------------------------------------------- live events
\* A set_prev_batch without the test of the number of lines.
SetPrevBatchAlways(buf, current, room_last) == MapBatch(room_last, "Backwards")
\* MatrixRoom::set_prev_batch
SetPrevBatch(buf, current, room_last) ==
    IF Len(buf) = 0 THEN MapBatch(room_last, "Backwards") ELSE current

\* The positions of the lines of buf that carry tag, oldest first.
RECURSIVE TaggedFrom(_, _, _)
TaggedFrom(buf, tag, i) ==
    IF i > Len(buf) THEN <<>>
    ELSE (IF tag \in buf[i].tags THEN <<i>> ELSE <<>>) \o TaggedFrom(buf, tag, i + 1)
Tagged(buf, tag) == TaggedFrom(buf, tag, 1)

Min(a, b) == IF a < b THEN a ELSE b

\* ------------------------------------------------------------- redaction
Colors == {"darkgray", "chat_delimiters", "backlog_line", "reset"}
StrikeMark == "u0336"

RedactionMessage(redacter, reason) ==
    <<"chat_delimiters", "<", "backlog_line", "Message redacted by: ", Nick(redacter)>>
        \o (IF reason = "" THEN <<>> ELSE <<", reason: ", reason>>)
        \o <<"chat_delimiters", ">", "reset">>

RECURSIVE RemoveColor(_)
RemoveColor(message) ==
    IF message = <<>> THEN <<>>
    ELSE (IF Head(message) \in Colors THEN <<>> ELSE <<Head(message)>>)
            \o RemoveColor(Tail(message))

RECURSIVE StrikeGraphemes(_)
StrikeGraphemes(message) ==
    IF message = <<>> THEN <<>>
    ELSE <<Head(message), StrikeMark>> \o StrikeGraphemes(Tail(message))

StrikeThrough(message) == StrikeGraphemes(RemoveColor(message))

\* A first line that loses its body under every policy.
RedactFirstLineDropsBody(message, style, notice) ==
    CASE style = "Delete" -> notice
      [] style = "Notice" -> notice
      [] style = "StrikeThrough" -> notice

RedactFirstLine(message, style, notice) ==
    CASE style = "Delete" -> notice
      [] style = "Notice" -> message \o <<" ">> \o notice
      [] style = "StrikeThrough" -> StrikeThrough(message) \o <<" ">> \o notice

\* A continuation line that gets the notice under every policy.
RedactStringWithNotice(message, style, notice) ==
    CASE style = "Delete" -> notice
      [] style = "Notice" -> message \o <<" ">> \o notice
      [] style = "StrikeThrough" -> StrikeThrough(message) \o <<" ">> \o notice

RedactString(message, style, notice) ==
    CASE style = "Delete" -> notice
      [] style = "Notice" -> message \o <<" ">> \o notice
      [] style = "StrikeThrough" -> StrikeThrough(message)

ModifyLine(line, new_message) ==
    [line EXCEPT !.message = new_message, !.tags = @ \cup {RedactedTag}]

RedactPredicate(line, event_id) ==
    IdTag(event_id) \in line.tags /\ RedactedTag \notin line.tags

\* The while loop of redact_event: the lines right above the first match, as
\* long as they satisfy the predicate.
RECURSIVE RedactAbove(_, _, _, _, _)
RedactAbove(buf, i, event_id, style, notice) ==
    IF i = 0 \/ ~RedactPredicate(buf[i], event_id) THEN buf
    ELSE RedactAbove(
            [buf EXCEPT ![i] = ModifyLine(@, RedactString(@.message, style, notice))],
            i - 1, event_id, style, notice)

RedactEvent(buf, event_id, redacter, reason, style) ==
    LET matching == {i \in 1..Len(buf) : RedactPredicate(buf[i], event_id)}
        notice == RedactionMessage(redacter, reason)
    IN IF matching = {} THEN buf
       ELSE LET first == CHOOSE i \in matching : \A j \in matching : j <= i
            IN RedactAbove(
                 [buf EXCEPT ![first] =
                     ModifyLine(@, RedactFirstLine(@.message, style, notice))],
                 first - 1, event_id, style, notice)

\* ------------------------------------------------------------- edits
TrimEnd(prefix) == prefix

\* A replacement that prints the surplus lines and does not sort.
ReplaceEventHelperNoSort(buf, found, event, now) ==
    LET date == buf[found[1]].date
        n == Min(Len(found), Len(event.lines))
        replaced ==
            [i \in 1..Len(buf) |->
                IF \E k \in 1..n : found[k] = i
                THEN LET k == CHOOSE k \in 1..n : found[k] = i
                     IN [buf[i] EXCEPT !.prefix = TrimEnd(event.prefix),
                                       !.message = event.lines[k].message,
                                       !.tags = event.lines[k].tags]
                ELSE IF \E k \in n + 1..Len(found) : found[k] = i
                THEN [buf[i] EXCEPT !.message = <<>>]
                ELSE buf[i]]
        surplus == [event EXCEPT !.message_timestamp = date,
                                 !.lines = SubSeq(event.lines, n + 1, Len(event.lines))]
    IN IF Len(found) < Len(event.lines)
       THEN PrintRenderedEvent(replaced, surplus, now)
       ELSE replaced

\* A replacement that leaves the target lines it has no new line for.
ReplaceEventHelperKeepsSurplus(buf, found, event, now) ==
    LET date == buf[found[1]].date
        n == Min(Len(found), Len(event.lines))
        replaced ==
            [i \in 1..Len(buf) |->
                IF \E k \in 1..n : found[k] = i
                THEN LET k == CHOOSE k \in 1..n : found[k] = i
                     IN [buf[i] EXCEPT !.prefix = TrimEnd(event.prefix),
                                       !.message = event.lines[k].message,
                                       !.tags = event.lines[k].tags]
                ELSE buf[i]]
        surplus == [event EXCEPT !.message_timestamp = date,
                                 !.lines = SubSeq(event.lines, n + 1, Len(event.lines))]
    IN IF Len(found) < Len(event.lines)
       THEN SortMessages(PrintRenderedEvent(replaced, surplus, now))
       ELSE replaced

\* MatrixRoom::replace_event_helper
ReplaceEventHelper(buf, found, event, now) ==
    LET date == buf[found[1]].date
        n == Min(Len(found), Len(event.lines))
        replaced ==
            [i \in 1..Len(buf) |->
                IF \E k \in 1..n : found[k] = i
                THEN LET k == CHOOSE k \in 1..n : found[k] = i
                     IN [buf[i] EXCEPT !.prefix = TrimEnd(event.prefix),
                                       !.message = event.lines[k].message,
                                       !.tags = event.lines[k].tags]
                ELSE IF \E k \in n + 1..Len(found) : found[k] = i
                THEN [buf[i] EXCEPT !.message = <<>>]
                ELSE buf[i]]
        surplus == [event EXCEPT !.message_timestamp = date,
                                 !.lines = SubSeq(event.lines, n + 1, Len(event.lines))]
    IN IF Len(found) < Len(event.lines)
       THEN SortMessages(PrintRenderedEvent(replaced, surplus, now))
       ELSE replaced

\* An edit applied without looking at the sender tag.
ReplaceEditAnySender(buf, event_id, sender, event, now) ==
    LET found == Tagged(buf, IdTag(event_id))
    IN IF found # <<>> THEN ReplaceEventHelper(buf, found, event, now) ELSE buf

ReplaceEdit(buf, event_id, sender, event, now) ==
    LET found == Tagged(buf, IdTag(event_id))
    IN IF found # <<>> /\ SenderTag(sender) \in buf[found[1]].tags
       THEN ReplaceEventHelper(buf, found, event, now)
       ELSE buf

\* render_sync_message and handle_edits: self tags for the own user.
AddClassTags(rendered, sender) ==
    IF sender = OwnUser THEN AddSelfTags(rendered) ELSE AddMsgTags(rendered)

\* ------------------------------------------------------------- outgoing queue
QueueHas(queue, uuid) == \E e \in queue : e.uuid = uuid
QueueEntry(queue, uuid) == CHOOSE e \in queue : e.uuid = uuid
QueueInsert(queue, uuid, echo, content) ==
    {e \in queue : e.uuid # uuid} \cup {[uuid |-> uuid, echo |-> echo, content |-> content]}
\* A removal that leaves the entry in the queue.
QueueRemoveKeeps(queue, uuid) == queue
\* A removal that takes only the entries with a local echo.
QueueRemoveOnlyEchoed(queue, uuid) == {e \in queue : e.uuid # uuid \/ ~e.echo}
QueueRemove(queue, uuid) == {e \in queue : e.uuid # uuid}

OwnEventId(uuid) == OwnEvName[CHOOSE i \in 1..MaxSends : TxnName[i] = uuid]

\* A replacement that also gives the echo lines the tags of the rendering.
RECURSIVE ReplaceEchoFromWithTags(_, _, _, _, _)
ReplaceEchoFromWithTags(buf, i, line_num, uuid, rendered) ==
    IF i = 0 \/ EchoTag(uuid) \notin buf[i].tags THEN [buf |-> buf, panic |-> FALSE]
    ELSE IF line_num = 0 THEN [buf |-> buf, panic |-> TRUE]
    ELSE ReplaceEchoFromWithTags(
            [buf EXCEPT ![i].message = rendered.lines[line_num].message,
                        ![i].tags = @ \cup rendered.lines[line_num].tags],
            i - 1, line_num - 1, uuid, rendered)

\* MatrixRoom::replace_local_echo: from the last line tagged with the uuid
\* upwards, while the lines carry the tag.  line_num counts down from the
\* number of rendered lines; decrementing it at zero panics.
RECURSIVE ReplaceEchoFrom(_, _, _, _, _)
ReplaceEchoFrom(buf, i, line_num, uuid, rendered) ==
    IF i = 0 \/ EchoTag(uuid) \notin buf[i].tags THEN [buf |-> buf, panic |-> FALSE]
    ELSE IF line_num = 0 THEN [buf |-> buf, panic |-> TRUE]
    ELSE ReplaceEchoFrom(
            [buf EXCEPT ![i].message = rendered.lines[line_num].message],
            i - 1, line_num - 1, uuid, rendered)

\* A replacement that stops after the last echo line.
ReplaceLocalEchoLastLine(buf, uuid, rendered) ==
    LET found == Tagged(buf, EchoTag(uuid))
    IN IF found = <<>> THEN [buf |-> buf, panic |-> FALSE]
       ELSE [buf |-> [buf EXCEPT ![found[Len(found)]].message =
                                    rendered.lines[Len(rendered.lines)].message],
             panic |-> FALSE]

ReplaceLocalEcho(buf, uuid, rendered) ==
    LET found == Tagged(buf, EchoTag(uuid))
    IN IF found = <<>> THEN [buf |-> buf, panic |-> FALSE]
       ELSE ReplaceEchoFrom(buf, found[Len(found)], Len(rendered.lines), uuid, rendered)

\* A confirmation that unwraps the queue entry.
HandleOutgoingMessageUnwraps(queue, buf, uuid, event_id, now) ==
    [queue |-> QueueRemove(queue, uuid), buf |-> buf,
     removed |-> QueueHas(queue, uuid), panic |-> ~QueueHas(queue, uuid)]

\* MatrixRoom::handle_outgoing_message: the queue, the buffer, whether an
\* entry was removed and whether the handler panicked.
HandleOutgoingMessage(queue, buf, uuid, event_id, now) ==
    IF ~QueueHas(queue, uuid)
    THEN [queue |-> queue, buf |-> buf, removed |-> FALSE, panic |-> FALSE]
    ELSE LET entry == QueueEntry(queue, uuid)
             rendered == AddClassTags(
                 RenderWithPrefix(now, event_id, OwnUser, entry.content), OwnUser)
             echoed == ReplaceLocalEcho(buf, uuid, rendered)
         IN IF ~MembersGet(OwnUser)
            THEN [queue |-> QueueRemove(queue, uuid), buf |-> buf,
                  removed |-> TRUE, panic |-> TRUE]
            ELSE IF entry.echo
            THEN [queue |-> QueueRemove(queue, uuid), buf |-> echoed.buf,
                  removed |-> TRUE, panic |-> echoed.panic]
            ELSE [queue |-> QueueRemove(queue, uuid),
                  buf |-> PrintRenderedEvent(buf, rendered, now),
                  removed |-> TRUE, panic |-> FALSE]

IdleSend == [task |-> "idle", synced |-> FALSE, removed |-> 0, confirmed |-> 0, cleaned |-> 0]

FreshUuid == CHOOSE t \in TxnIds :
                /\ sends[t].task = "idle"
                /\ \A i, j \in 1..MaxSends :
                      (TxnName[j] = t /\ i < j) => sends[TxnName[i]].task # "idle"

\* A queueing that prints the local echo twice.
QueueOutgoingMessageEchoesTwice(queue, buf, uuid, content, local_echo, now) ==
    LET echo == AddSelfTags(RenderWithPrefixForEcho(OwnUser, uuid, content, now))
    IN IF local_echo /\ content.msgtype = "text"
       THEN [queue |-> QueueInsert(queue, uuid, TRUE, content),
             buf |-> PrintRenderedEvent(PrintRenderedEvent(buf, echo, now), echo, now),
             panic |-> ~MembersGet(OwnUser)]
       ELSE [queue |-> QueueInsert(queue, uuid, FALSE, content), buf |-> buf,
             panic |-> FALSE]

\* A queueing that prints a local echo for every kind of content.
QueueOutgoingMessageEchoesAll(queue, buf, uuid, content, local_echo, now) ==
    IF local_echo
    THEN [queue |-> QueueInsert(queue, uuid, TRUE, content),
          buf |-> PrintRenderedEvent(buf,
                     AddSelfTags(RenderWithPrefixForEcho(OwnUser, uuid, content, now)), now),
          panic |-> ~MembersGet(OwnUser)]
    ELSE [queue |-> QueueInsert(queue, uuid, FALSE, content), buf |-> buf, panic |-> FALSE]

\* MatrixRoom::queue_outgoing_message
QueueOutgoingMessage(queue, buf, uuid, content, local_echo, now) ==
    IF local_echo /\ content.msgtype = "text"
    THEN [queue |-> QueueInsert(queue, uuid, TRUE, content),
          buf |-> PrintRenderedEvent(buf,
                     AddSelfTags(RenderWithPrefixForEcho(OwnUser, uuid, content, now)), now),
          panic |-> ~MembersGet(OwnUser)]
    ELSE [queue |-> QueueInsert(queue, uuid, FALSE, content), buf |-> buf, panic |-> FALSE]

\* MatrixRoom::send_message up to the transport call.
SendMessage(content, local_echo, connected) ==
    /\ ~crashed
    /\ \E t \in TxnIds : sends[t].task = "idle"
    /\ IF connected
       THEN LET q == QueueOutgoingMessage(outgoing_messages, lines, FreshUuid, content,
                                          local_echo, clock)
            IN /\ Len(q.buf) <= MaxLines
               /\ outgoing_messages' = q.queue
               /\ lines' = q.buf
               /\ sends' = [sends EXCEPT ![FreshUuid].task = "awaiting"]
               /\ last' = Did("send_message", "sent", TRUE, <<>>, FreshUuid)
       ELSE /\ Len(lines) < MaxLines
            /\ lines' = PrintDateTags(lines, clock, {}, "", <<"Error not connected">>, clock)
            /\ last' = Did("send_message", "not_connected", FALSE, <<>>, "")
            /\ UNCHANGED <<outgoing_messages, sends>>
    /\ UNCHANGED <<prev_batch, last_prev_batch, exhausted, mutex_held, locked, page_reqs, seen,
                   clock, crashed, title,
                   forward_due, elsewhere>>

Confirm(t, r, outcome, op) ==
    /\ Len(r.buf) <= MaxLines
    /\ outgoing_messages' = r.queue
    /\ lines' = r.buf
    /\ crashed' = r.panic
    /\ last' = Did(op, IF r.panic THEN "panic" ELSE outcome, FALSE, <<>>, t)

\* The rest of send_message once the transport answered Ok(r).
SendMessageOk(t) ==
    /\ ~crashed
    /\ sends[t].task = "awaiting"
    /\ LET r == HandleOutgoingMessage(outgoing_messages, lines, t, OwnEventId(t), clock)
       IN /\ Confirm(t, r, IF r.removed THEN "confirmed" ELSE "absent", "send_response")
          /\ sends' = [sends EXCEPT ![t].task = "done",
                                    ![t].removed = @ + (IF r.removed THEN 1 ELSE 0),
                                    ![t].confirmed = @ + (IF r.removed THEN 1 ELSE 0)]
    /\ UNCHANGED <<prev_batch, last_prev_batch, exhausted, mutex_held, locked, page_reqs, seen,
                   clock, title,
                   forward_due, elsewhere>>

\* An error branch that forgets the cleanup.
SendMessageErrKeepsEntry(t) ==
    /\ ~crashed
    /\ sends[t].task = "awaiting"
    /\ sends' = [sends EXCEPT ![t].task = "done"]
    /\ last' = Did("send_response", "failed", FALSE, <<>>, t)
    /\ UNCHANGED <<lines, outgoing_messages, prev_batch, last_prev_batch, exhausted,
                   mutex_held, locked, page_reqs, seen, clock, crashed, title,
                   forward_due, elsewhere>>

\* The rest of send_message once the transport answered Err(_).
SendMessageErr(t) ==
    /\ ~crashed
    /\ sends[t].task = "awaiting"
    /\ outgoing_messages' = QueueRemove(outgoing_messages, t)
    /\ sends' = [sends EXCEPT
                    ![t].task = "done",
                    ![t].removed = @ + (IF QueueHas(outgoing_messages, t) THEN 1 ELSE 0),
                    ![t].cleaned = @ + (IF QueueHas(outgoing_messages, t) THEN 1 ELSE 0)]
    /\ last' = Did("send_response", "failed", FALSE, <<>>, t)
    /\ UNCHANGED <<lines, prev_batch, last_prev_batch, exhausted, mutex_held, locked, page_reqs, seen,
                   clock, crashed, title,
                   forward_due, elsewhere>>

\* ------------------------------------------------------------- live events
\* handle_sync_room_event on a message that carries the transaction id of a
\* send of this session.
SyncOwnMessage(t) ==
    /\ ~crashed
    /\ sends[t].task # "idle"
    /\ ~sends[t].synced
    /\ prev_batch' = SetPrevBatch(lines, prev_batch, last_prev_batch)
    /\ LET r == HandleOutgoingMessage(outgoing_messages, lines, t, OwnEventId(t), clock)
       IN /\ Confirm(t, r, IF r.removed THEN "confirmed" ELSE "absent", "sync_own_message")
          /\ sends' = [sends EXCEPT ![t].synced = TRUE,
                                    ![t].removed = @ + (IF r.removed THEN 1 ELSE 0),
                                    ![t].confirmed = @ + (IF r.removed THEN 1 ELSE 0)]
    /\ UNCHANGED <<last_prev_batch, exhausted, mutex_held, locked, page_reqs, seen, clock, title,
                   forward_due, elsewhere>>

\* handle_sync_room_event on a message without transaction id that is neither
\* a redaction nor an edit.
SyncMessage(event) ==
    /\ ~crashed
    /\ prev_batch' = SetPrevBatch(lines, prev_batch, last_prev_batch)
    /\ seen' = seen \cup {event.event_id}
    /\ IF MembersGet(event.sender)
       THEN /\ lines' = PrintRenderedEvent(lines,
                           AddClassTags(RenderWithPrefix(event.ts, event.event_id,
                                                         event.sender, event.content),
                                        event.sender), clock)
            /\ Len(lines') <= MaxLines
            /\ last' = Did("sync_message", "printed", FALSE, <<>>, "")
            /\ UNCHANGED crashed
       ELSE /\ crashed' = TRUE
            /\ last' = Did("sync_message", "panic", FALSE, <<>>, "")
            /\ UNCHANGED lines
    /\ UNCHANGED <<last_prev_batch, exhausted, mutex_held, locked, page_reqs, outgoing_messages,
                   sends, clock, title,
                   forward_due, elsewhere>>

\* handle_sync_room_event on an edit: handle_edits and replace_edit.
SyncEdit(event) ==
    /\ ~crashed
    /\ prev_batch' = SetPrevBatch(lines, prev_batch, last_prev_batch)
    /\ IF MembersGet(event.sender)
       THEN /\ lines' = ReplaceEdit(lines, event.content.edits, event.sender,
                           AddClassTags(RenderWithPrefix(event.ts, event.content.edits,
                                                         event.sender, event.content),
                                        event.sender), clock)
            /\ Len(lines') <= MaxLines
            /\ last' = Did("sync_edit",
                           IF Tagged(lines, IdTag(event.content.edits)) = <<>> THEN "no_target"
                           ELSE IF SenderTag(event.sender) \in
                                   lines[Tagged(lines, IdTag(event.content.edits))[1]].tags
                           THEN "replaced" ELSE "rejected",
                           FALSE, <<>>, event.content.edits)
            /\ UNCHANGED crashed
       ELSE /\ crashed' = TRUE
            /\ last' = Did("sync_edit", "panic", FALSE, <<>>, event.content.edits)
            /\ UNCHANGED lines
    /\ UNCHANGED <<last_prev_batch, exhausted, mutex_held, locked, page_reqs, outgoing_messages,
                   sends, seen, clock, title,
                   forward_due, elsewhere>>

RedactionStyles == {"Delete", "Notice", "StrikeThrough"}
Reasons == {"", "spam"}

\* handle_sync_room_event on a redaction: redact_event.
SyncRedaction(redacts, redacter, reason, style) ==
    /\ ~crashed
    /\ prev_batch' = SetPrevBatch(lines, prev_batch, last_prev_batch)
    /\ IF MembersGet(redacter)
       THEN /\ lines' = RedactEvent(lines, redacts, redacter, reason, style)
            /\ last' = Did("sync_redaction",
                           IF \E i \in 1..Len(lines) : RedactPredicate(lines[i], redacts)
                           THEN "redacted" ELSE "no_target",
                           FALSE, <<>>, redacts)
            /\ UNCHANGED crashed
       ELSE /\ crashed' = TRUE
            /\ last' = Did("sync_redaction", "panic", FALSE, <<>>, redacts)
            /\ UNCHANGED lines
    /\ UNCHANGED <<last_prev_batch, exhausted, mutex_held, locked, page_reqs, outgoing_messages,
                   sends, seen, clock, title,
                   forward_due, elsewhere>>

\* A dispatch that never sees a transaction id.
HasTransactionIdNever(event) == FALSE
\* handle_room_message: the event carries a transaction id that parses.
HasTransactionId(event) == event.txn # "none"

\* MatrixRoom::handle_room_message behind handle_sync_room_event: the
\* transaction id is looked at first, then redaction, edit, plain message.
HandleRoomMessage(event, style) ==
    IF HasTransactionId(event) THEN SyncOwnMessage(event.txn)
    ELSE IF event.kind = "redaction"
    THEN SyncRedaction(event.redacts, event.sender, event.reason, style)
    ELSE IF IsEdit(event) THEN SyncEdit(event)
    ELSE SyncMessage(event)

\* handle_sync_room_event on a state or redacted state event: nothing is printed.
SyncState(kind) ==
    /\ ~crashed
    /\ prev_batch' = SetPrevBatch(lines, prev_batch, last_prev_batch)
    /\ last' = Did("sync_state", kind, FALSE, <<>>, "")
    /\ UNCHANGED <<lines, last_prev_batch, exhausted, mutex_held, locked, page_reqs,
                   outgoing_messages, sends, seen, clock, crashed, title,
                   forward_due, elsewhere>>

\* handle_sync_room_event on a room topic event: handle_sync_state_event calls
\* set_topic, which writes the topic of the SDK room to the buffer's title.
SyncTopic(topic) ==
    /\ ~crashed
    /\ prev_batch' = SetPrevBatch(lines, prev_batch, last_prev_batch)
    /\ title' = topic
    /\ last' = Did("sync_state", "topic", FALSE, <<>>, "")
    /\ UNCHANGED <<lines, last_prev_batch, exhausted, mutex_held, locked, page_reqs,
                   outgoing_messages, sends, seen, clock, crashed, forward_due, elsewhere>>

\* The SDK stores the prev_batch token of a sync response.
SyncPrevBatchToken(token) ==
    /\ ~crashed
    /\ token # last_prev_batch
    /\ last_prev_batch' = token
    /\ last' = Did("sync_response", "", FALSE, <<>>, "")
    /\ UNCHANGED <<lines, prev_batch, mutex_held, locked, page_reqs, outgoing_messages,
                   sends, seen, clock, exhausted, crashed, title,
                   forward_due, elsewhere>>

Tick ==
    /\ ~crashed
    /\ clock < MaxTime
    /\ clock' = clock + 1
    /\ UNCHANGED <<lines, prev_batch, last_prev_batch, exhausted, mutex_held, locked, page_reqs,
                   outgoing_messages, sends, seen, crashed, last, title,
                   forward_due, elsewhere>>

\* MatrixRoom::sort_messages on the buffer as it stands.
SortMessagesRun ==
    /\ ~crashed
    /\ lines' = SortMessages(lines)
    /\ last' = Did("sort_messages", IF lines' = lines THEN "kept" ELSE "moved",
                   FALSE, <<>>, "")
    /\ UNCHANGED <<prev_batch, last_prev_batch, exhausted, mutex_held, locked, page_reqs,
                   outgoing_messages, sends, seen, clock, crashed, title,
                   forward_due, elsewhere>>

\* ------------------------------------------------------------- handles
\* MatrixRoom is Clone and every mutable field is an Rc: a clone of a handle
\* reads and writes the cells of the handle it was cloned from.  h1 and h2
\* are handles of room !r1, h3 is the handle of room !r2.
Rooms == {"!r1", "!r2"}
Handles == {"h1", "h2", "h3"}
RoomOf(h) == IF h = "h3" THEN "!r2" ELSE "!r1"
CellIds == Rooms \cup Handles
\* A clone that copies the fields instead of sharing them.
CellOfOwn(h) == h
\* #[derive(Clone)] on MatrixRoom, IntMutex and MessageQueue: Rc::clone.
CellOf(h) == RoomOf(h)

\* IntMutex::new, MessageQueue::new and the prev_batch of RoomHandle::new.
NewCell == [prev_batch |-> Backwards("tokA"), mutex_held |-> FALSE, locked |-> FALSE,
            queue |-> {}]
HandlesInit ==
    /\ cells = [c \in CellIds |-> NewCell]
    /\ handle_reqs = {}

\* MatrixRoom::get_messages called through handle h, up to the transport call.
HandleGetMessages(h) ==
    LET c == cells[CellOf(h)]
    IN /\ ~crashed
       /\ IF ~HasCursor(c.prev_batch)
          THEN /\ last' = Did("get_messages", "no_cursor", FALSE, <<>>, h)
               /\ UNCHANGED handle_vars
          ELSE IF c.mutex_held
          THEN /\ last' = Did("get_messages", "busy", FALSE, <<>>, h)
               /\ UNCHANGED handle_vars
          ELSE /\ cells' = [cells EXCEPT ![CellOf(h)].mutex_held = TRUE,
                                         ![CellOf(h)].locked = LockedByTryLock]
               /\ handle_reqs' = handle_reqs \cup {[handle |-> h, cursor |-> c.prev_batch]}
               /\ last' = Did("get_messages", "requested", TRUE, <<>>, h)
       /\ UNCHANGED <<room_vars, channel_vars, typing_vars>>

\* The rest of get_messages once room_messages answered Ok(r) to the call r:
\* chunk stands for r.chunk, of which only its emptiness is read here.
HandleRoomMessagesOk(r, chunk, end) ==
    LET id == CellOf(r.handle)
    IN /\ ~crashed
       /\ r \in handle_reqs
       /\ cells' = [cells EXCEPT ![id].prev_batch = NextBatch(@, chunk, end),
                                 ![id].mutex_held = FALSE,
                                 ![id].locked = LockedByDrop(@)]
       /\ handle_reqs' = handle_reqs \ {r}
       /\ last' = Did("room_messages", IF chunk = <<>> THEN "empty_page" ELSE "page",
                      FALSE, <<>>, r.handle)
       /\ UNCHANGED <<room_vars, channel_vars, typing_vars>>

\* The rest of get_messages once room_messages answered Err(_) to the call r.
HandleRoomMessagesErr(r) ==
    LET id == CellOf(r.handle)
    IN /\ ~crashed
       /\ r \in handle_reqs
       /\ cells' = [cells EXCEPT ![id].mutex_held = FALSE,
                                 ![id].locked = LockedByDrop(@)]
       /\ handle_reqs' = handle_reqs \ {r}
       /\ last' = Did("room_messages", "error", FALSE, <<>>, r.handle)
       /\ UNCHANGED <<room_vars, channel_vars, typing_vars>>

\* MatrixRoom::reset_prev_batch called through handle h.
HandleResetPrevBatch(h) ==
    /\ ~crashed
    /\ cells' = [cells EXCEPT ![CellOf(h)].prev_batch = NoneBatch]
    /\ last' = Did("reset_prev_batch", "", FALSE, <<>>, h)
    /\ UNCHANGED <<room_vars, handle_reqs, channel_vars, typing_vars>>

\* MessageQueue::add through handle h (queue_outgoing_message without echo).
HandleQueueAdd(h, uuid) ==
    /\ ~crashed
    /\ \A c \in CellIds : ~QueueHas(cells[c].queue, uuid)
    /\ cells' = [cells EXCEPT ![CellOf(h)].queue = QueueInsert(@, uuid, FALSE, NoContent)]
    /\ last' = Did("queue_add", "", FALSE, <<>>, h)
    /\ UNCHANGED <<room_vars, handle_reqs, channel_vars, typing_vars>>

\* MessageQueue::remove through handle h (handle_outgoing_message).
HandleQueueRemove(h, uuid) ==
    /\ ~crashed
    /\ cells' = [cells EXCEPT ![CellOf(h)].queue = QueueRemove(@, uuid)]
    /\ last' = Did("queue_remove",
                   IF QueueHas(cells[CellOf(h)].queue, uuid) THEN "removed" ELSE "absent",
                   FALSE, <<>>, h)
    /\ UNCHANGED <<room_vars, handle_reqs, channel_vars, typing_vars>>

\* ------------------------------------------------------------- channel
\* Connection::new makes one bounded channel per server; sync_loop holds the
\* Sender, every spawned member sync holds a clone of it, and
\* response_receiver holds the Receiver.
Envelope(kind, room, resp, pos, from) ==
    [kind |-> kind, room |-> room, resp |-> resp, pos |-> pos, from |-> from]
NoEnvelope == Envelope("none", "", 0, 0, "")
\* What sync_loop has left to do: send an envelope, or spawn a member sync.
SendItem(envelope, then) == [do |-> "send", envelope |-> envelope, then |-> then]
SpawnItem(room, resp, members) ==
    [do |-> "spawn", room |-> room, resp |-> resp, members |-> members]

\* A channel whose send never finds it full.
SendOutcomeUnbounded(ch, rx_alive) == IF ~rx_alive THEN "closed" ELSE "sent"
\* Sender::send: Err when the Receiver is gone; the sender is suspended while
\* the channel holds as many envelopes as its capacity.
SendOutcome(ch, rx_alive) ==
    IF ~rx_alive THEN "closed" ELSE IF Len(ch) >= MaxChannel THEN "full" ELSE "sent"

\* The Receiver lives as long as response_receiver runs.
ReceiverAlive == receiver.status = "running"
\* A Sender lives in sync_loop and in every spawned member sync.
SenderAlive == sync_loop.status # "ended" \/ member_tasks # {}

ChannelInit ==
    /\ channel = <<>>
    /\ sync_loop = [status |-> "login", resp |-> 0, todo |-> <<>>]
    /\ member_tasks = {}
    /\ receiver = [status |-> "running", server |-> TRUE]
    /\ handled = [room \in Rooms \cup {""} |-> NoEnvelope]

\* The part of one joined room in a sync response: its state events first,
\* then its timeline events, then the member sync when are_members_synced()
\* is false.  A member event is sent as MemberEvent, the others as SyncState
\* and SyncEvent.
RoomParts ==
    {[state |-> s, timeline |-> t, members |-> m] :
        s \in {"none", "MemberEvent"}, t \in {0, 2}, m \in {"synced", "one"}}
RoomItems(room, resp, part) ==
    (IF part.state = "none" THEN <<>>
     ELSE <<SendItem(Envelope(part.state, room, resp, 0, "sync_loop"), "continue")>>)
    \o [k \in 1..part.timeline |->
            SendItem(Envelope("SyncEvent", room, resp, k, "sync_loop"), "continue")]
    \o (IF part.members = "synced" THEN <<>>
        ELSE <<SpawnItem(room, resp, IF part.members = "one" THEN 1 ELSE 0)>>)

\* sync_loop before the first sync: the login, whose failure is reported
\* through the channel before sync_loop returns.
Login(ok) ==
    /\ sync_loop.status = "login"
    /\ sync_loop.todo = <<>>
    /\ sync_loop' = [sync_loop EXCEPT
          !.todo = IF ok
                   THEN <<SendItem(Envelope("LoginMessage", "", 0, 0, "sync_loop"), "continue")>>
                   ELSE <<SendItem(Envelope("Error", "", 0, 0, "sync_loop"), "return")>>,
          !.status = "syncing"]
    /\ last' = Did("login", IF ok THEN "ok" ELSE "failed", FALSE, <<>>, "")
    /\ UNCHANGED <<room_vars, handle_vars, typing_vars, channel, member_tasks, receiver, handled>>

\* The callback of sync_with_callback is entered with the next response,
\* which holds a part for one joined room.
SyncResponse(room, part) ==
    /\ sync_loop.status = "syncing"
    /\ sync_loop.todo = <<>>
    /\ sync_loop.resp < MaxResponses
    /\ sync_loop' = [sync_loop EXCEPT
          !.resp = @ + 1,
          !.todo = RoomItems(room, sync_loop.resp + 1, part)]
    /\ last' = Did("sync_response", "", FALSE, <<>>, "")
    /\ UNCHANGED <<room_vars, handle_vars, typing_vars, channel, member_tasks, receiver, handled>>

\* sync_loop at its next channel.send(..).await or tokio::spawn.
SyncLoopStep ==
    /\ sync_loop.status = "syncing"
    /\ sync_loop.todo # <<>>
    /\ LET item == Head(sync_loop.todo)
           outcome == SendOutcome(channel, ReceiverAlive)
       IN IF item.do = "spawn"
          THEN /\ member_tasks' = member_tasks \cup
                     {[room |-> item.room, resp |-> item.resp,
                       todo |-> [k \in 1..item.members |->
                                   Envelope("MemberEvent", item.room, item.resp, k,
                                            "member_sync")]]}
               /\ sync_loop' = [sync_loop EXCEPT !.todo = Tail(@)]
               /\ last' = Did("spawn", "", FALSE, <<>>, item.room)
               /\ UNCHANGED channel
          ELSE /\ outcome # "full"
               /\ IF outcome = "sent"
                  THEN /\ channel' = Append(channel, item.envelope)
                       /\ sync_loop' = [sync_loop EXCEPT
                             !.todo = IF item.then = "return" THEN <<>> ELSE Tail(@),
                             !.status = IF item.then = "return" THEN "ended" ELSE @]
                  ELSE /\ sync_loop' = [sync_loop EXCEPT !.todo = <<>>, !.status = "ended"]
                       /\ UNCHANGED channel
               /\ last' = Did("send", outcome, FALSE, <<>>, "sync_loop")
               /\ UNCHANGED member_tasks
    /\ UNCHANGED <<room_vars, handle_vars, typing_vars, receiver, handled>>

\* A spawned member sync at its next channel.send(..).await: an Err is logged
\* and the task goes on with the next member.
MemberTaskStep(task) ==
    /\ task \in member_tasks
    /\ LET outcome == SendOutcome(channel, ReceiverAlive)
           rest == [task EXCEPT !.todo = Tail(@)]
       IN IF task.todo = <<>>
          THEN /\ member_tasks' = member_tasks \ {task}
               /\ last' = Did("member_sync", "done", FALSE, <<>>, task.room)
               /\ UNCHANGED channel
          ELSE /\ outcome # "full"
               /\ member_tasks' = (member_tasks \ {task}) \cup {rest}
               /\ channel' = IF outcome = "sent" THEN Append(channel, Head(task.todo))
                             ELSE channel
               /\ last' = Did("send", outcome, FALSE, <<>>, "member_sync")
    /\ UNCHANGED <<room_vars, handle_vars, typing_vars, sync_loop, receiver, handled>>

\* A receiver whose recv yields None as soon as no Sender lives, whatever is
\* still buffered.
ReceiveStopsWhenClosed ==
    /\ receiver.status = "running"
    /\ IF channel # <<>> /\ SenderAlive
       THEN /\ channel' = Tail(channel)
            /\ IF receiver.server
               THEN /\ handled' = [handled EXCEPT ![Head(channel).room] = Head(channel)]
                    /\ last' = Did("recv", Head(channel).kind, FALSE, <<>>, Head(channel).room)
                    /\ UNCHANGED receiver
               ELSE /\ receiver' = [receiver EXCEPT !.status = "ended"]
                    /\ last' = Did("recv", "no_server", FALSE, <<>>, "")
                    /\ UNCHANGED handled
       ELSE /\ ~SenderAlive
            /\ receiver' = [receiver EXCEPT !.status = "ended"]
            /\ last' = Did("recv", "None", FALSE, <<>>, "")
            /\ UNCHANGED <<channel, handled>>
    /\ UNCHANGED <<room_vars, handle_vars, typing_vars, sync_loop, member_tasks>>

\* response_receiver at receiver.recv().await: an envelope is taken and
\* handled when the server can be upgraded, else the loop returns; None is
\* received when no Sender lives and nothing is buffered.
Receive ==
    /\ receiver.status = "running"
    /\ IF channel # <<>>
       THEN /\ channel' = Tail(channel)
            /\ IF receiver.server
               THEN /\ handled' = [handled EXCEPT ![Head(channel).room] = Head(channel)]
                    /\ last' = Did("recv", Head(channel).kind, FALSE, <<>>, Head(channel).room)
                    /\ UNCHANGED receiver
               ELSE /\ receiver' = [receiver EXCEPT !.status = "ended"]
                    /\ last' = Did("recv", "no_server", FALSE, <<>>, "")
                    /\ UNCHANGED handled
       ELSE /\ ~SenderAlive
            /\ receiver' = [receiver EXCEPT !.status = "ended"]
            /\ last' = Did("recv", "None", FALSE, <<>>, "")
            /\ UNCHANGED <<channel, handled>>
    /\ UNCHANGED <<room_vars, handle_vars, typing_vars, sync_loop, member_tasks>>

\* The InnerServer behind the Weak of response_receiver is dropped.
ServerDropped ==
    /\ receiver.server
    /\ receiver' = [receiver EXCEPT !.server = FALSE]
    /\ last' = Did("server_dropped", "", FALSE, <<>>, "")
    /\ UNCHANGED <<room_vars, handle_vars, typing_vars, channel, sync_loop, member_tasks, handled>>

\* The last Connection is dropped: the runtime shuts down, which ends
\* sync_loop and the member syncs and drops their Senders.
ConnectionDropped ==
    /\ SenderAlive
    /\ sync_loop' = [sync_loop EXCEPT !.todo = <<>>, !.status = "ended"]
    /\ member_tasks' = {}
    /\ last' = Did("connection_dropped", "", FALSE, <<>>, "")
    /\ UNCHANGED <<room_vars, handle_vars, typing_vars, channel, receiver, handled>>

\* ------------------------------------------------------------- typing notices
\* What the input line holds: nothing, short text, text, a command, and text
\* that starts with an escaped slash.
Inputs == {<<>>,
           <<"h", "i">>,
           <<"h", "e", "l", "l", "o">>,
           <<"/", "m", "e", " ", "x">>,
           <<"/", "/", "m", "e">>}

StartsWith(text, prefix) ==
    /\ Len(text) >= Len(prefix)
    /\ SubSeq(text, 1, Len(prefix)) = prefix

\* A task spawned by update_typing_notice: "spawned" until the foreground
\* executor runs it, "request" while Connection::send_typing_notice is awaited.
TypingTask(typing, stage) == [typing |-> typing, stage |-> stage]

TypingInit ==
    /\ input = <<>>
    /\ typing_tasks = <<>>

\* The user changes the input line.
SetInput(text) ==
    /\ text # input
    /\ input' = text
    /\ last' = Did("input", "", FALSE, <<>>, "")
    /\ UNCHANGED <<room_vars, handle_vars, channel_vars, typing_tasks>>

\* MatrixRoom::update_typing_notice
UpdateTypingNotice(buffer_open) ==
    /\ Len(typing_tasks) < MaxTyping
    /\ IF ~buffer_open
       THEN /\ last' = Did("update_typing_notice", "no_buffer", FALSE, <<>>, "")
            /\ UNCHANGED typing_tasks
       ELSE IF StartsWith(input, <<"/">>) /\ ~StartsWith(input, <<"/", "/">>)
       THEN /\ last' = Did("update_typing_notice", "command", FALSE, <<>>, "")
            /\ UNCHANGED typing_tasks
       ELSE /\ typing_tasks' = Append(typing_tasks,
                                      TypingTask(Len(input) >= 4, "spawned"))
            /\ last' = Did("update_typing_notice", "spawned", FALSE, <<>>, "")
    /\ UNCHANGED <<room_vars, handle_vars, channel_vars, input>>

\* The spawned task runs: without a connection it ends, with one it calls
\* Connection::send_typing_notice, which runs room.typing_notice(typing) on
\* the runtime; when that call answers, the result is discarded.
TypingTaskStep(i, connected) ==
    /\ i \in 1..Len(typing_tasks)
    /\ IF typing_tasks[i].stage = "spawned" /\ connected
       THEN /\ typing_tasks' = [typing_tasks EXCEPT ![i].stage = "request"]
            /\ last' = Did("typing_task", "request", TRUE, <<>>, "")
       ELSE /\ typing_tasks' = RemoveAt(typing_tasks, i)
            /\ last' = Did("typing_task",
                           IF typing_tasks[i].stage = "spawned"
                           THEN "no_connection" ELSE "answered",
                           FALSE, <<>>, "")
    /\ UNCHANGED <<room_vars, handle_vars, channel_vars, input>>

\* ------------------------------------------------------------- specification
\* RoomHandle::new, or RoomHandle::restore when restored.  The room starts
\* without a topic, so the set_topic of restore writes the empty title.
Init ==
    /\ lines = <<>>
    /\ last_prev_batch \in Tokens \cup {NoToken}
    /\ \E restored \in BOOLEAN :
          /\ prev_batch = MapBatch(last_prev_batch,
                                   IF restored THEN "Forward" ELSE "Backwards")
          /\ forward_due = (restored /\ last_prev_batch # NoToken)
    /\ mutex_held = FALSE
    /\ locked = FALSE
    /\ page_reqs = <<>>
    /\ exhausted = FALSE
    /\ outgoing_messages = {}
    /\ sends = [t \in TxnIds |-> IdleSend]
    /\ seen = {}
    /\ clock = 1
    /\ crashed = FALSE
    /\ title = NoTopic
    /\ last = Did("new", "", FALSE, <<>>, "")
    /\ HandlesInit
    /\ ChannelInit
    /\ TypingInit

\* Events of the live timeline and of history pages drawn by the specifications.
TextContents == {c \in Contents : c.msgtype = "text"}
\* Edits: the time of the edit event itself is not used by the handler.
EditEvents ==
    {[kind |-> "message", event_id |-> "$edit", sender |-> u, ts |-> 1,
      content |-> [c EXCEPT !.edits = e]] : u \in Users, c \in TextContents, e \in EventIds}
TextA == [msgtype |-> "text", body |-> << <<"a">> >>, edits |-> "none"]
\* Messages of another member of the room.
AliceMessages(ids) == {e \in MessageEvents(ids, {TextA}) : e.sender = "@alice"}
\* Messages of a sender the roster does not hold.
GhostMessages(ids) == {e \in MessageEvents(ids, {TextA}) : e.sender = "@ghost" /\ e.ts = 1}
PageEvents(ids) ==
    AliceMessages(ids) \cup GhostMessages(ids)
        \cup {e \in EditEvents : e.sender = "@alice" /\ e.content.body = TextA.body
                                  /\ e.content.edits = "$e1"}
        \cup OtherEvents
\* The continuation token of a room_messages response, if it has one.
EndTokens == {"tokB", NoToken}
\* The pages of a room_messages response: no event occurs twice in a page.
Pages(ids) ==
    {<<>>} \cup
    {p \in UNION {[1..n -> PageEvents(ids)] : n \in 1..MaxPage} :
        \A j, k \in 1..Len(p) :
            (j < k /\ p[j].event_id \in EventIds) => p[j].event_id # p[k].event_id}

\* Pagination against live events and resets of the cursor.
PaginationNext ==
    \/ \E connected \in BOOLEAN : GetMessages(connected)
    \/ \E i \in 1..Len(page_reqs), end \in EndTokens :
          \E chunk \in Pages(EventIds \ seen) : RoomMessagesOk(i, chunk, end)
    \/ \E i \in 1..Len(page_reqs) : RoomMessagesErr(i)
    \/ (\A t \in TxnIds : sends[t].task = "idle") /\ SendMessage(TextA, FALSE, TRUE)
    \/ \E t \in TxnIds : SendMessageErr(t)
    \/ ResetPrevBatch
    \/ \E event \in AliceMessages({"$e1"} \ seen) : SyncMessage(event)
    \/ \E kind \in {"state", "redacted_state"} : SyncState(kind)
    \/ \E token \in Tokens \cup {NoToken} : SyncPrevBatchToken(token)

PaginationSpec == Init /\ [][PaginationNext]_vars

\* Sends against the transport's answers and the live events of the room.
SendNext ==
    \/ \E content \in Contents, local_echo, connected \in BOOLEAN :
          SendMessage(content, local_echo, connected)
    \/ \E t \in TxnIds : SendMessageOk(t)
    \/ \E t \in TxnIds : SendMessageErr(t)
    \/ \E t \in TxnIds : SyncOwnMessage(t)
    \/ \E event \in AliceMessages({"$e1"} \ seen) : SyncMessage(event)
    \/ Tick

\* A room whose SDK state holds no prev_batch token.
InitNoToken == Init /\ last_prev_batch = NoToken

SendSpec == InitNoToken /\ [][SendNext]_vars

\* The live timeline: messages, edits and redactions.
TimelineNext ==
    \/ \E event \in MessageEvents(EventIds \ seen, TextContents) : SyncMessage(event)
    \/ \E event \in EditEvents : SyncEdit(event)
    \/ \E redacts \in EventIds, redacter \in {"@alice", "@ghost"}, reason \in Reasons,
          style \in RedactionStyles : SyncRedaction(redacts, redacter, reason, style)

TimelineSpec == InitNoToken /\ [][TimelineNext]_vars

\* Messages and their redactions under every policy, with and without reason.
RedactionNext ==
    \/ \E event \in MessageEvents(EventIds \ seen, TextContents) : SyncMessage(event)
    \/ \E redacts \in EventIds, reason \in Reasons, style \in RedactionStyles :
          SyncRedaction(redacts, "@alice", reason, style)

RedactionSpec == InitNoToken /\ [][RedactionNext]_vars

\* Lines printed in the order of arrival at any date, and sorts of the buffer.
SortNext ==
    \/ \E event \in MessageEvents(EventIds \ seen, TextContents) : SyncMessage(event)
    \/ Tick
    \/ SortMessagesRun

SortSpec == InitNoToken /\ [][SortNext]_vars

\* Messages and their edits, with redactions under one policy.
EditNext ==
    \/ \E event \in MessageEvents(EventIds \ seen, TextContents) : SyncMessage(event)
    \/ \E event \in EditEvents : SyncEdit(event)
    \/ \E redacts \in EventIds : SyncRedaction(redacts, "@alice", "", "StrikeThrough")

EditSpec == InitNoToken /\ [][EditNext]_vars

\* Live message events as handle_room_message gets them: txn is the
\* transaction id of the unsigned data, "none" when there is none.
LiveEvent(kind, event_id, sender, content, txn, redacts) ==
    [kind |-> kind, event_id |-> event_id, sender |-> sender, ts |-> 1,
     content |-> content, txn |-> txn, redacts |-> redacts, reason |-> ""]
EditOfE1 == [TextA EXCEPT !.edits = "$e1"]
\* What the branches after the transaction id test would make of the event.
ApparentKinds(txn, event_id, sender) ==
    {LiveEvent("message", event_id, sender, TextA, txn, ""),
     LiveEvent("message", "$edit", sender, EditOfE1, txn, ""),
     LiveEvent("redaction", "", sender, NoContent, txn, "$e1")}
LiveEvents(ids) ==
    UNION {ApparentKinds("none", e, "@alice") : e \in ids}
        \cup UNION {ApparentKinds(t, OwnEventId(t), OwnUser) : t \in TxnIds}

\* The route the tests after the transaction id test give an event.
RemainingRoute(event) ==
    IF event.kind = "redaction" THEN "sync_redaction"
    ELSE IF IsEdit(event) THEN "sync_edit"
    ELSE "sync_message"

\* Sends of this session against every kind of live message event.
LiveNext ==
    \/ \E local_echo \in BOOLEAN : SendMessage(TextA, local_echo, TRUE)
    \/ \E t \in TxnIds : SendMessageOk(t)
    \/ \E t \in TxnIds : SendMessageErr(t)
    \/ \E event \in LiveEvents(EventIds \ seen), style \in RedactionStyles :
          HandleRoomMessage(event, style)

LiveSpec == InitNoToken /\ [][LiveNext]_vars

\* History pages that hold the room's own messages: the server returns them
\* with the transaction id of the send (unsigned.transaction_id).
OwnHistoryMessages ==
    {[kind |-> "message", event_id |-> OwnEventId(t), sender |-> OwnUser, ts |-> 1,
      content |-> TextA, txn |-> t] : t \in TxnIds}
HistoryPageEvents(ids) ==
    {e \in PageEvents(ids) : e.ts = 1 /\ e.event_id # "$e2"} \cup OwnHistoryMessages
HistoryPages(ids) ==
    {<<>>} \cup
    {p \in UNION {[1..n -> HistoryPageEvents(ids)] : n \in 1..MaxPage} :
        \A j, k \in 1..Len(p) : j < k => p[j].event_id # p[k].event_id}

\* Pagination while sends are pending and the room's topic changes.
HistoryNext ==
    \/ \E local_echo \in BOOLEAN : SendMessage(TextA, local_echo, TRUE)
    \/ \E t \in TxnIds : SendMessageOk(t)
    \/ GetMessages(TRUE)
    \/ \E i \in 1..Len(page_reqs) :
          \E chunk \in HistoryPages(EventIds \ seen) : RoomMessagesOk(i, chunk, "tokB")
    \/ SyncTopic("topicA")

\* A room whose SDK state holds the prev_batch token tokA.
InitTokA == Init /\ last_prev_batch = "tokA"

HistorySpec == InitTokA /\ [][HistoryNext]_vars

\* Pagination, resets and the echo queue through the handles of two rooms.
HandleNext ==
    \/ \E h \in Handles : HandleGetMessages(h)
    \/ \E r \in handle_reqs, chunk \in {<<>>, <<"event">>}, end \in EndTokens :
          HandleRoomMessagesOk(r, chunk, end)
    \/ \E r \in handle_reqs : HandleRoomMessagesErr(r)
    \/ \E h \in Handles : HandleResetPrevBatch(h)
    \/ \E h \in Handles, uuid \in TxnIds : HandleQueueAdd(h, uuid)
    \/ \E h \in Handles, uuid \in TxnIds : HandleQueueRemove(h, uuid)

HandleSpec == InitNoToken /\ [][HandleNext]_vars

\* The sync loop, the member syncs and the receiver of one server.
ChannelNext ==
    \/ \E ok \in BOOLEAN : Login(ok)
    \/ \E room \in Rooms, part \in RoomParts : SyncResponse(room, part)
    \/ SyncLoopStep
    \/ \E task \in member_tasks : MemberTaskStep(task)
    \/ Receive
    \/ ServerDropped
    \/ ConnectionDropped

ChannelSpec == InitNoToken /\ [][ChannelNext]_vars

\* The input line of the room's buffer and the typing notices it causes.
TypingNext ==
    \/ \E text \in Inputs : SetInput(text)
    \/ \E buffer_open \in BOOLEAN : UpdateTypingNotice(buffer_open)
    \/ \E i \in 1..MaxTyping + 1, connected \in BOOLEAN : TypingTaskStep(i, connected)

TypingSpec == InitNoToken /\ [][TypingNext]_vars

\* ------------------------------------------------------------- claims

\* The step in which get_messages handles the page of its request.
PageHandled ==
    /\ last'.op = "room_messages"
    /\ last'.outcome \in {"page", "empty_page"}
    /\ Len(page_reqs') < Len(page_reqs)

\* The step in which get_messages handles the transport's error.
PageFailed ==
    /\ last'.op = "room_messages"
    /\ last'.outcome = "error"
    /\ Len(page_reqs') < Len(page_reqs)

\* C1: at most one room_messages call of the room is outstanding, and a
\* get_messages() run while one is outstanding makes no transport call and
\* leaves the guard, the cursor, the requests and the timeline unchanged.
C1_SingleFlight ==
    /\ [](Len(page_reqs) <= 1)
    /\ [][\A connected \in BOOLEAN :
            (GetMessages(connected) /\ page_reqs # <<>>) =>
                /\ UNCHANGED <<lines, prev_batch, mutex_held, locked, page_reqs>>
                /\ ~last'.transport
                /\ last'.outcome \in {"busy", "no_cursor"}]_vars

C1_Witness ==
    /\ last.op = "get_messages"
    /\ last.outcome = "busy"
    /\ Len(page_reqs) = 1
    /\ mutex_held

\* C2: per transaction id the queue entry is removed at most once, every
\* removal is either one confirmation or one failure cleanup, the entry is in
\* the queue until then, and it has been removed exactly once when the
\* transport's answer has been handled.
C2_ExactlyOnce ==
    \A t \in TxnIds :
        /\ sends[t].removed <= 1
        /\ sends[t].confirmed + sends[t].cleaned = sends[t].removed
        /\ (sends[t].task = "done" => sends[t].removed = 1)
        /\ (sends[t].task # "idle" =>
               (QueueHas(outgoing_messages, t) <=> sends[t].removed = 0))

C2_Witness ==
    \E t \in TxnIds :
        /\ sends[t].task = "done"
        /\ sends[t].synced
        /\ sends[t].confirmed = 1
        /\ last.op = "send_response"
        /\ last.outcome = "absent"

\* C3: a redaction of the event that the previous handler run has just
\* redacted changes no line.
C3_RedactionIdempotent ==
    [][(/\ last.op = "sync_redaction"
        /\ last.outcome = "redacted"
        /\ last'.op = "sync_redaction"
        /\ last'.target = last.target) => lines' = lines]_vars

\* C4: an edit whose sender tag is not on the first line tagged with the target
\* event id changes no line and appends none.
C4_ForeignEditRejected ==
    [][(last'.op = "sync_edit" /\ last'.outcome = "rejected") => lines' = lines]_vars

C4_Witness ==
    /\ last.op = "sync_edit"
    /\ last.outcome = "rejected"
    /\ \E i \in 1..Len(lines) : IdTag(last.target) \in lines[i].tags

\* C5: when the page of a request started with Forward(t) has been handled, the
\* cursor is Backwards(t) and the timeline is sorted by date.
C5_ForwardFlipsToBackwards ==
    [][(PageHandled /\ page_reqs[1].dir = "Forward") =>
            /\ prev_batch' = Backwards(page_reqs[1].token)
            /\ IsSorted(lines')]_vars

\* C6 as stated: once an empty page has answered a Backwards request the cursor
\* is None and every later get_messages() makes no transport call and does not
\* take the guard.
C6_ExhaustedForever ==
    /\ [][(PageHandled /\ page_reqs[1].dir = "Backwards" /\ last'.outcome = "empty_page")
            => prev_batch' = NoneBatch]_vars
    /\ [][\A connected \in BOOLEAN :
            (exhausted /\ GetMessages(connected)) =>
                /\ ~last'.transport
                /\ last'.refreshes = <<>>
                /\ UNCHANGED <<mutex_held, locked, page_reqs>>]_vars

\* C6 amended: the empty page of a Backwards request leaves the cursor None;
\* while the cursor stays None get_messages() makes no transport call and does
\* not take the guard; the cursor leaves None only by a live event handled on
\* an empty timeline, which reseeds it from the room's last token, or by the
\* page of a request that was still in flight.
C6_ExhaustedUntilReseeded ==
    /\ [][(PageHandled /\ page_reqs[1].dir = "Backwards" /\ last'.outcome = "empty_page")
            => prev_batch' = NoneBatch]_vars
    /\ [][\A connected \in BOOLEAN :
            (exhausted /\ prev_batch = NoneBatch /\ GetMessages(connected)) =>
                /\ ~last'.transport
                /\ last'.refreshes = <<>>
                /\ UNCHANGED <<mutex_held, locked, page_reqs, prev_batch>>]_vars
    /\ [][(exhausted /\ prev_batch = NoneBatch /\ prev_batch' # NoneBatch) =>
            \/ PageHandled
            \/ /\ Len(lines) = 0
               /\ last'.op \in {"sync_message", "sync_state"}
               /\ prev_batch' = Backwards(last_prev_batch)]_vars

C6_Witness ==
    /\ exhausted
    /\ prev_batch = NoneBatch
    /\ last.op = "get_messages"
    /\ last.outcome = "no_cursor"

\* C7: handling the transport's error leaves the cursor and the lines as they
\* were and releases the guard, so that the request can be made again.
C7_FailureKeepsCursor ==
    [][PageFailed =>
            /\ prev_batch' = prev_batch
            /\ lines' = lines
            /\ ~mutex_held'
            /\ ~IsBusy(locked')]_vars

C7_Witness ==
    /\ last.op = "room_messages"
    /\ last.outcome = "error"
    /\ HasCursor(prev_batch)
    /\ TryLock
    /\ Len(lines) > 0

\* C8: get_messages() without a cursor or with the guard held changes nothing:
\* no transport call, no bar item refresh, and cursor, guard, requests, queue
\* and lines as before.
C8_FailFastFrame ==
    [][\A connected \in BOOLEAN :
        (GetMessages(connected) /\ (prev_batch = NoneBatch \/ mutex_held)) =>
            /\ UNCHANGED <<lines, prev_batch, last_prev_batch, mutex_held, locked,
                           page_reqs, outgoing_messages, sends>>
            /\ ~last'.transport
            /\ last'.refreshes = <<>>]_vars

C8_Witness ==
    /\ last.op = "get_messages"
    /\ last.outcome = "no_cursor"
    /\ ~mutex_held
    /\ outgoing_messages # {}

\* C9: whenever get_messages has handled the transport's answer, or found no
\* connection, the guard is free again: the flag is false and try_lock succeeds.
C9_GuardReleased ==
    (\/ last.op = "room_messages"
     \/ (last.op = "get_messages" /\ last.outcome = "not_connected"))
        => (~IsBusy(locked) /\ TryLock)

\* C10: the flag read by is_busy() is true exactly when a request holds the
\* guard, and the refreshes of a request show busy after the acquisition and
\* not busy after the release.
C10_BusyMatchesGuard ==
    /\ IsBusy(locked) = mutex_held
    /\ mutex_held = (page_reqs # <<>>)
    /\ (last.op = "get_messages" /\ last.outcome = "requested")
          => last.refreshes = <<TRUE>>
    /\ (last.op = "get_messages" /\ last.outcome = "not_connected")
          => last.refreshes = <<TRUE, FALSE>>
    /\ (last.op = "room_messages" /\ last.outcome \in {"page", "empty_page", "error"})
          => last.refreshes = <<FALSE>>

C10_Witness ==
    /\ last.op = "room_messages"
    /\ last.outcome = "page"
    /\ ~IsBusy(locked)
    /\ Len(lines) > 0

C12_AbsentConfirmationNoOp ==
    [][\A t \in TxnIds :
        ((SendMessageOk(t) \/ SyncOwnMessage(t)) /\ ~QueueHas(outgoing_messages, t)) =>
            /\ lines' = lines
            /\ outgoing_messages' = outgoing_messages
            /\ ~crashed'
            /\ last'.outcome = "absent"]_vars

C12_Witness ==
    /\ last.op = "sync_own_message"
    /\ last.outcome = "absent"
    /\ sends[last.target].cleaned = 1
    /\ ~crashed

\* The step in which the entry of t is confirmed, by either handler.
Confirms(t) ==
    /\ SendMessageOk(t) \/ SyncOwnMessage(t)
    /\ QueueHas(outgoing_messages, t)
    /\ ~crashed'

\* The lines the confirmation of t renders.
ConfirmedLines(t) ==
    RenderWithPrefix(clock, OwnEventId(t), OwnUser,
                     QueueEntry(outgoing_messages, t).content).lines

\* C13: the confirmation of a send with local echo rewrites the messages of
\* the lines tagged with the transaction id with the rendered lines, in order,
\* adds no line and changes no other line; without local echo it appends the
\* rendered lines; in both cases the entry has left the queue.
C13_ConfirmationRewritesEcho ==
    [][\A t \in TxnIds : Confirms(t) =>
        LET found == Tagged(lines, EchoTag(t))
            new == ConfirmedLines(t)
        IN /\ ~QueueHas(outgoing_messages', t)
           /\ IF QueueEntry(outgoing_messages, t).echo
              THEN /\ Len(found) = Len(new)
                   /\ Len(lines') = Len(lines)
                   /\ \A k \in 1..Len(found) :
                         lines'[found[k]] =
                             [lines[found[k]] EXCEPT !.message = new[k].message]
                   /\ \A i \in 1..Len(lines) :
                         EchoTag(t) \notin lines[i].tags => lines'[i] = lines[i]
              ELSE /\ Len(lines') = Len(lines) + Len(new)
                   /\ SubSeq(lines', 1, Len(lines)) = lines
                   /\ \A k \in 1..Len(new) :
                         /\ lines'[Len(lines) + k].message = new[k].message
                         /\ IdTag(OwnEventId(t)) \in lines'[Len(lines) + k].tags]_vars

C13_Witness ==
    /\ last.outcome = "confirmed"
    /\ \E i \in 1..Len(lines) - 1 :
          /\ EchoTag(last.target) \in lines[i].tags
          /\ EchoTag(last.target) \in lines[i + 1].tags
          /\ lines[i].message = <<"b">>
          /\ lines[i + 1].message = <<"c">>
    /\ \E i \in 1..Len(lines) : EchoTag(last.target) \notin lines[i].tags

\* C14: when the transport fails a send, the entry of its transaction id is
\* gone from the queue afterwards, no confirmation is applied by that step,
\* every other entry stays, and the lines, a local echo included, are as they
\* were.
C14_FailureCleansQueueOnly ==
    [][\A t \in TxnIds : (last'.op = "send_response" /\ last'.outcome = "failed"
                           /\ last'.target = t /\ sends[t].task = "awaiting") =>
            /\ ~QueueHas(outgoing_messages', t)
            /\ \A e \in outgoing_messages : e.uuid # t => e \in outgoing_messages'
            /\ sends'[t].confirmed = sends[t].confirmed
            /\ lines' = lines]_vars

C14_Witness ==
    /\ last.op = "send_response"
    /\ last.outcome = "failed"
    /\ sends[last.target].cleaned = 1
    /\ sends[last.target].confirmed = 0
    /\ \E i \in 1..Len(lines) :
          /\ EchoTag(last.target) \in lines[i].tags
          /\ lines[i].message[1] = "darkgray"

\* The target of the edit or redaction handled by the step is on no line
\* (for a redaction: on no line that is not yet marked redacted).
TargetMissing ==
    \/ /\ last'.op = "sync_edit"
       /\ Tagged(lines, IdTag(last'.target)) = <<>>
    \/ /\ last'.op = "sync_redaction"
       /\ \A i \in 1..Len(lines) : ~RedactPredicate(lines[i], last'.target)

\* C15: an edit or a redaction whose target is missing changes no line,
\* appends none and reaches no error state.
C15_MissingTargetNoOp ==
    [][TargetMissing => (lines' = lines /\ ~crashed')]_vars

\* The number of lines of a buffer that carry the id of an event.
LinesOfEvent(buf, event_id) ==
    Cardinality({n \in 1..Len(buf) : IdTag(event_id) \in buf[n].tags})

\* C16: handling a page of history leaves the echo queue, the send tasks and
\* the room's title as they were; a historical message that carries the
\* transaction id of a send is printed like any other message, one more line
\* with its event id, whether or not its entry is still queued.
C16_HistoryLeavesQueue ==
    [][last'.op = "room_messages" =>
          /\ outgoing_messages' = outgoing_messages
          /\ sends' = sends
          /\ title' = title
          /\ \A t \in TxnIds :
                (OwnEventId(t) \in seen' \ seen /\ ~crashed') =>
                    LinesOfEvent(lines', OwnEventId(t))
                        = LinesOfEvent(lines, OwnEventId(t)) + 1]_vars
\* A page printed the room's own message while its entry is still queued.
C16_Witness ==
    /\ last.op = "room_messages"
    /\ ~crashed
    /\ title # NoTopic
    /\ \E t \in TxnIds : /\ QueueHas(outgoing_messages, t)
                         /\ LinesOfEvent(lines, OwnEventId(t)) = 1

\* C17: a historical message that is an edit is skipped by handle_room_event,
\* whoever sent it and whatever it replaces: the buffer it returns is the
\* buffer it was given.  A page that holds only an edit therefore adds no
\* line, and the lines after it are the lines before it as sort_messages
\* leaves them.
C17_HistoricalEditSuppressed ==
    /\ [](\A e \in EditEvents :
            HandleRoomEvent(lines, e, clock) = [buf |-> lines, panic |-> FALSE])
    /\ [][\A i \in 1..Len(page_reqs), e \in {x \in HistoryPageEvents({}) : IsEdit(x)} :
            RoomMessagesOk(i, <<e>>, "tokB") =>
                /\ ~crashed'
                /\ Len(lines') = Len(lines)
                /\ lines' = SortMessages(lines)
                /\ \A n \in 1..Len(lines) : \E k \in 1..Len(lines') : lines'[k] = lines[n]]_vars
\* A page with an edit of $e1 has been handled and the line of $e1 is there.
C17_Witness ==
    /\ last.op = "room_messages"
    /\ last.target = "edit"
    /\ ~crashed
    /\ \E n \in 1..Len(lines) :
          {IdTag("$e1"), SenderTag("@alice")} \subseteq lines[n].tags

\* The historical events that handle_room_event matches with an empty arm.
NoOpKinds == {"state", "redacted_message", "redacted_state"}
NoOpEvents == {e \in OtherEvents : e.kind \in NoOpKinds}

\* C18: handle_room_event on a historical redacted message, redacted state
\* event or state event returns the buffer it was given and does not panic.
\* A page that holds only such an event leaves every line, the echo queue,
\* the send tasks and the title as they were, and the cursor is the one
\* get_messages writes for the page, which does not depend on the event.
C18_HistoricalNoOps ==
    /\ [](\A e \in NoOpEvents :
            HandleRoomEvent(lines, e, clock) = [buf |-> lines, panic |-> FALSE])
    /\ [][\A i \in 1..Len(page_reqs), e \in NoOpEvents :
            RoomMessagesOk(i, <<e>>, "tokB") =>
                /\ ~crashed'
                /\ lines' = SortMessages(lines)
                /\ \A n \in 1..Len(lines) : \E k \in 1..Len(lines') : lines'[k] = lines[n]
                /\ prev_batch' \in {Backwards(page_reqs[i].token), Backwards("tokB")}
                /\ prev_batch'.dir = "Backwards"
                /\ outgoing_messages' = outgoing_messages
                /\ sends' = sends
                /\ title' = title]_vars
\* A page with such an event has been handled while the buffer holds lines,
\* a send is queued and the title is set.
C18_Witness ==
    /\ last.op = "room_messages"
    /\ last.target \in NoOpKinds
    /\ ~crashed
    /\ lines # <<>>
    /\ outgoing_messages # {}
    /\ title # NoTopic

\* The step is a run of handle_sync_room_event.
LiveEventHandled ==
    last'.op \in {"sync_message", "sync_state", "sync_own_message", "sync_edit",
                  "sync_redaction"}

\* C19: a live event handled while the buffer has no line sets the cursor to
\* Backwards(t) for the room's last prev_batch token t, or to None when the
\* room has no such token; a live event handled while the buffer has a line
\* leaves the cursor as it was.
C19_LiveEventSeedsCursor ==
    [][LiveEventHandled =>
          /\ (Len(lines) = 0 /\ last_prev_batch # NoToken)
                => prev_batch' = Backwards(last_prev_batch)
          /\ (Len(lines) = 0 /\ last_prev_batch = NoToken) => prev_batch' = NoneBatch
          /\ Len(lines) > 0 => prev_batch' = prev_batch]_vars
\* A state event has put the cursor back after the history had been read to
\* its end, the buffer holding no line.
C19_Witness ==
    /\ last.op = "sync_state"
    /\ lines = <<>>
    /\ exhausted
    /\ last_prev_batch # NoToken
    /\ prev_batch = Backwards(last_prev_batch)
    /\ page_reqs = <<>>

\* The step sends a room_messages request in the backward direction.
BackwardRequestSent ==
    /\ last'.op = "get_messages"
    /\ last'.transport
    /\ Len(page_reqs') = Len(page_reqs) + 1
    /\ page_reqs'[Len(page_reqs')].dir = "Backwards"

\* C20: a room restored with the stored token t starts with the cursor
\* Forward(t), and as long as no page of a Forward request has been handled no
\* room_messages request is sent in the backward direction, whatever live
\* events are handled in between.
C20_ForwardBeforeBackward ==
    /\ (forward_due => prev_batch = Forward(last_prev_batch))
    /\ [][forward_due => ~BackwardRequestSent]_vars

\* A room_messages call of the room of handle h is awaited.
InFlightFor(h) == \E r \in handle_reqs : RoomOf(r.handle) = RoomOf(h)
\* The step is a run of get_messages through handle h.
GetMessagesThrough(h) == last'.op = "get_messages" /\ last'.target = h

\* C21: the handles of one room read the same cursor, guard and echo queue;
\* get_messages through a handle makes no room_messages call while a call made
\* through any handle of that room is awaited; a call awaited for another
\* room does not stop it, and a step through a handle of one room leaves the
\* cursor, guard and queue of every other room as they were.
C21_HandlesShareRoomState ==
    /\ [](\A h, g \in Handles :
            RoomOf(h) = RoomOf(g) => cells[CellOf(h)] = cells[CellOf(g)])
    /\ [][\A h \in Handles :
            GetMessagesThrough(h) =>
                /\ InFlightFor(h) => (~last'.transport /\ UNCHANGED handle_vars)
                /\ (~InFlightFor(h) /\ HasCursor(cells[CellOf(h)].prev_batch))
                      => (last'.transport
                          /\ [handle |-> h, cursor |-> cells[CellOf(h)].prev_batch]
                                \in handle_reqs')]_vars
    /\ [][\A h, g \in Handles :
            (last'.target = h /\ RoomOf(g) # RoomOf(h))
                => cells'[CellOf(g)] = cells[CellOf(g)]]_vars
\* get_messages through h2 found the guard taken by the call made through h1,
\* while a call for the other room is awaited as well.
C21_Witness ==
    /\ last.op = "get_messages"
    /\ last.outcome = "busy"
    /\ last.target = "h2"
    /\ \E r \in handle_reqs : r.handle = "h1"
    /\ \E r \in handle_reqs : r.handle = "h3"
    /\ cells[CellOf("h2")].queue # {}

\* C22: the channel never holds more envelopes than its capacity; while it is
\* full and the Receiver lives no send completes, and unless the connection
\* is dropped the sync loop keeps every envelope it has to send until the
\* receiver has taken one; a completed send appends its
\* envelope behind the buffered ones, and the only other change of the buffer
\* is the receiver taking the oldest envelope.
C22_ChannelBounded ==
    /\ [](Len(channel) <= MaxChannel)
    /\ [][(Len(channel) >= MaxChannel /\ ReceiverAlive
                /\ last'.op # "connection_dropped") =>
            /\ last'.op # "send"
            /\ \A k \in 1..Len(sync_loop.todo) :
                  sync_loop.todo[k].do = "send" =>
                      \E j \in 1..Len(sync_loop'.todo) : sync_loop'.todo[j] = sync_loop.todo[k]]_vars
    /\ [][(last'.op = "send" /\ last'.outcome = "sent") =>
            /\ Len(channel) < MaxChannel
            /\ Len(channel') = Len(channel) + 1
            /\ SubSeq(channel', 1, Len(channel)) = channel]_vars
    /\ [][(channel' # channel /\ last'.op # "send") =>
            /\ last'.op = "recv"
            /\ channel' = Tail(channel)]_vars
\* The sync loop is suspended at a send: the channel is full, the Receiver
\* lives and the envelope is still the next thing the loop has to send.
C22_Witness ==
    /\ Len(channel) = MaxChannel
    /\ ReceiverAlive
    /\ sync_loop.status = "syncing"
    /\ sync_loop.todo # <<>>
    /\ Head(sync_loop.todo).do = "send"
    /\ last.op = "send"
    /\ last.outcome = "sent"

\* Envelope a was produced for an earlier place than b: an earlier sync
\* response, or the same response and an earlier event of it; the member sync
\* of a response is spawned behind the events of its room.
ProducedBefore(a, b) ==
    \/ a.resp < b.resp
    \/ /\ a.resp = b.resp
       /\ \/ a.from = b.from /\ a.pos < b.pos
          \/ a.from = "sync_loop" /\ b.from = "member_sync"

\* C23: the receiver never handles an envelope of a room that was produced
\* for an earlier place than the envelope of that room it handled last: state
\* before timeline, timeline in response order, an earlier response before a
\* later one, the envelopes of member syncs included.
C23_RoomOrderKept ==
    [][(last'.op = "recv" /\ channel # <<>> /\ receiver.server) =>
          ~ProducedBefore(Head(channel), handled[Head(channel).room])]_vars

\* The step is the sync loop at a send, not at a spawn.
SyncLoopAtSend ==
    /\ last'.op = "send"
    /\ last'.target = "sync_loop"

\* The sync loop stops at the first send it makes after the Receiver is gone.
SyncLoopStopsAtSend ==
    [][(SyncLoopAtSend /\ ~ReceiverAlive) =>
          /\ sync_loop'.status = "ended"
          /\ sync_loop'.todo = <<>>
          /\ channel' = channel]_vars

C25_UnresolvedSenderSkipped == ~crashed

\* C26: when an accepted edit renders to more lines than the buffer holds for
\* its target, the buffer is afterwards sorted by date, the lines of the
\* event are the lines of the replacement, each once and in order, and all of
\* them carry the date of the target's first line.
C26_LongerEditSortedOnce ==
    [][\A event \in EditEvents :
          LET found == Tagged(lines, IdTag(event.content.edits))
              body == event.content.body
              after == Tagged(lines', IdTag(event.content.edits))
          IN (SyncEdit(event) /\ last'.outcome = "replaced" /\ Len(found) < Len(body)) =>
                /\ IsSorted(lines')
                /\ Len(lines') = Len(lines) + Len(body) - Len(found)
                /\ Len(after) = Len(body)
                /\ \A k \in 1..Len(after) :
                      /\ lines'[after[k]].message = body[k]
                      /\ lines'[after[k]].date = lines[found[1]].date]_vars
\* An edit has been applied whose surplus line stands behind the line of
\* another event of the same date: the lines of the edited event are apart.
C26_Witness ==
    /\ last.op = "sync_edit"
    /\ last.outcome = "replaced"
    /\ \E i, j, k \in 1..Len(lines) :
          /\ i < j /\ j < k
          /\ IdTag(last.target) \in lines[i].tags
          /\ IdTag(last.target) \notin lines[j].tags
          /\ IdTag(last.target) \in lines[k].tags
          /\ lines[i].date = lines[k].date

\* The typing-notice requests that are awaited.
TypingRequests == {i \in 1..Len(typing_tasks) : typing_tasks[i].stage = "request"}

\* C27: at most one typing-notice request of the room is in flight at any
\* time.
C27_OneTypingRequest == Cardinality(TypingRequests) <= 1

\* C28: a send that reaches the transport has put its entry into the queue
\* first; when local echo is enabled and the content is text, the entry says
\* has_echo and the rendered lines are appended with the echo tag of the
\* transaction and the self tag; in every other case the entry says no echo
\* and the buffer is left as it was.
C28_EchoOnlyForEnabledText ==
    [][\A content \in Contents, local_echo \in BOOLEAN :
          SendMessage(content, local_echo, TRUE) =>
             LET uuid == last'.target
                 echo == local_echo /\ content.msgtype = "text"
             IN /\ last'.transport
                /\ sends'[uuid].task = "awaiting"
                /\ QueueHas(outgoing_messages', uuid)
                /\ QueueEntry(outgoing_messages', uuid).echo = echo
                /\ QueueEntry(outgoing_messages', uuid).content = content
                /\ IF echo
                   THEN /\ Len(lines') = Len(lines) + Len(content.body)
                        /\ SubSeq(lines', 1, Len(lines)) = lines
                        /\ \A k \in Len(lines) + 1..Len(lines') :
                              {EchoTag(uuid), SelfTag} \subseteq lines'[k].tags
                   ELSE lines' = lines]_vars
\* A text was sent with local echo: its entry says so and its line is the
\* last of the buffer.
C28_Witness ==
    /\ last.op = "send_message"
    /\ last.outcome = "sent"
    /\ QueueHas(outgoing_messages, last.target)
    /\ QueueEntry(outgoing_messages, last.target).echo
    /\ Len(lines) > 0
    /\ EchoTag(last.target) \in lines[Len(lines)].tags

\* The line redact_event locates first: the last line of the event that is
\* not yet redacted.
FirstMatch(buf, event_id) ==
    CHOOSE i \in 1..Len(buf) :
        /\ RedactPredicate(buf[i], event_id)
        /\ \A j \in i + 1..Len(buf) : ~RedactPredicate(buf[j], event_id)

\* C29: under the Notice policy a redaction that finds its event keeps the
\* body of the located line and puts behind it the notice, which names the
\* redacter and, when one is given, the reason; the line gains the redacted
\* tag; no line changes its date or prefix, no line is added or removed, and
\* the lines of other events are left as they were.
C29_NoticeKeepsBody ==
    [][\A redacts \in EventIds, reason \in Reasons :
          (SyncRedaction(redacts, "@alice", reason, "Notice") /\ last'.outcome = "redacted") =>
             LET first == FirstMatch(lines, redacts)
             IN /\ lines'[first].message =
                      lines[first].message
                         \o <<" ", "chat_delimiters", "<", "backlog_line",
                              "Message redacted by: ", Nick("@alice")>>
                         \o (IF reason = "" THEN <<>> ELSE <<", reason: ", reason>>)
                         \o <<"chat_delimiters", ">", "reset">>
                /\ lines'[first].tags = lines[first].tags \cup {RedactedTag}
                /\ Len(lines') = Len(lines)
                /\ \A i \in 1..Len(lines) :
                      /\ lines'[i].date = lines[i].date
                      /\ lines'[i].date_printed = lines[i].date_printed
                      /\ lines'[i].prefix = lines[i].prefix
                      /\ IdTag(redacts) \notin lines[i].tags => lines'[i] = lines[i]]_vars
\* A redaction with reason has put its notice behind the body of a line, and
\* the buffer holds a line of another event.
C29_Witness ==
    /\ last.op = "sync_redaction"
    /\ last.outcome = "redacted"
    /\ \E i, j \in 1..Len(lines) :
          /\ IdTag(last.target) \in lines[i].tags
          /\ RedactedTag \in lines[i].tags
          /\ Len(lines[i].message) > 3
          /\ lines[i].message[1] \in {"a", "b", "c"}
          /\ lines[i].message[2] = " "
          /\ lines[i].message[3] = "chat_delimiters"
          /\ \E k \in 1..Len(lines[i].message) : lines[i].message[k] = ", reason: "
          /\ IdTag(last.target) \notin lines[j].tags

\* The message holds a redaction notice.
HasNotice(message) ==
    \E k \in 1..Len(message) : message[k] = "Message redacted by: "
\* Line i and the lines between it and the line located first are lines of
\* the event that are not yet redacted.
ContiguousAbove(buf, i, first, event_id) ==
    /\ i < first
    /\ \A j \in i..first : RedactPredicate(buf[j], event_id)

\* C30: under the StrikeThrough policy a redaction that finds its event puts
\* the notice on one line only, the line located first, which is the last
\* line of the event not yet redacted, behind its struck-through body; the
\* lines of the event right above it are struck through and gain the
\* redacted tag without a notice; every other line is left as it was.
C30_StrikeThroughNoticeOnce ==
    [][\A redacts \in EventIds, reason \in Reasons :
          (/\ SyncRedaction(redacts, "@alice", reason, "StrikeThrough")
           /\ last'.outcome = "redacted") =>
             LET first == FirstMatch(lines, redacts)
             IN /\ Len(lines') = Len(lines)
                /\ {i \in 1..Len(lines) :
                       HasNotice(lines'[i].message) /\ ~HasNotice(lines[i].message)} = {first}
                /\ lines'[first].message =
                      StrikeThrough(lines[first].message) \o <<" ">>
                         \o RedactionMessage("@alice", reason)
                /\ RedactedTag \in lines'[first].tags
                /\ \A i \in 1..Len(lines) :
                      IF ContiguousAbove(lines, i, first, redacts)
                      THEN /\ lines'[i].message = StrikeThrough(lines[i].message)
                           /\ lines'[i].tags = lines[i].tags \cup {RedactedTag}
                      ELSE i # first => lines'[i] = lines[i]]_vars
\* A two-line event was redacted: its upper line is struck through without a
\* notice, its lower line is struck through and carries the notice.
C30_Witness ==
    /\ last.op = "sync_redaction"
    /\ last.outcome = "redacted"
    /\ \E i \in 1..Len(lines) - 1 :
          /\ IdTag(last.target) \in lines[i].tags
          /\ IdTag(last.target) \in lines[i + 1].tags
          /\ RedactedTag \in lines[i].tags
          /\ RedactedTag \in lines[i + 1].tags
          /\ lines[i].message = <<"b", StrikeMark>>
          /\ Len(lines[i + 1].message) > 3
          /\ SubSeq(lines[i + 1].message, 1, 3) = <<"c", StrikeMark, " ">>
          /\ HasNotice(lines[i + 1].message)

\* C31: while a room_messages request is awaited the cursor is changed by
\* nothing but the handling of its page, and the cursor that the handling of
\* the page starts from is the cursor the request read when it started.
C31_CursorOnlyByPagination ==
    /\ [][(page_reqs # <<>> /\ prev_batch' # prev_batch) => PageHandled]_vars
    /\ [][PageHandled => prev_batch = page_reqs[1]]_vars

\* C32: when the page of a request started with a Backwards cursor holds
\* events and has been handled, the cursor is Backwards(end) for the
\* continuation token end of the response, None when the response has no
\* token, and the timeline is sorted by date.
C32_BackwardsPageAdvances ==
    [][(PageHandled /\ last'.outcome = "page" /\ page_reqs[1].dir = "Backwards") =>
          /\ prev_batch' = (IF last'.end = NoToken THEN NoneBatch ELSE Backwards(last'.end))
          /\ IsSorted(lines')]_vars
\* A page with a message has been handled and the cursor has advanced to the
\* token of the response, which the room did not know before.
C32_Witness ==
    /\ last.op = "room_messages"
    /\ last.outcome = "page"
    /\ last.target = "message"
    /\ ~forward_due
    /\ last_prev_batch = "tokA"
    /\ prev_batch = Backwards("tokB")
    /\ Len(lines) > 0

\* C33: when the page of a request started with Forward(t) has been handled
\* after the cursor was reseeded or cleared while the request was awaited, the
\* cursor is Backwards(t) all the same and the timeline is sorted by date.
C33_ConsumedCursorDecides ==
    [][(PageHandled /\ page_reqs[1].dir = "Forward" /\ prev_batch # page_reqs[1]) =>
          /\ prev_batch' = Backwards(page_reqs[1].token)
          /\ IsSorted(lines')]_vars

\* The ways to take the lines of a buffer of n lines in another order.
Orders(n) == {p \in [1..n -> 1..n] : \A i, j \in 1..n : p[i] = p[j] => i = j}

\* C34: sort_messages leaves the number of lines as it was and the lines in
\* ascending order of date; every line after the sort is, in date,
\* date_printed, tags, prefix and message, one line of before, each line of
\* before is taken once, and lines of the same date stand in the order they
\* had before.
C34_SortStableInPlace ==
    [][last'.op = "sort_messages" =>
          /\ Len(lines') = Len(lines)
          /\ IsSorted(lines')
          /\ \E p \in Orders(Len(lines)) :
                /\ \A i \in 1..Len(lines) : lines'[i] = lines[p[i]]
                /\ \A i, j \in 1..Len(lines) :
                      (i < j /\ lines'[i].date = lines'[j].date) => p[i] < p[j]]_vars
\* A sort has moved lines, and the buffer holds two different lines of the
\* same date next to each other.
C34_Witness ==
    /\ last.op = "sort_messages"
    /\ last.outcome = "moved"
    /\ \E i \in 1..Len(lines) - 1 :
          /\ lines[i].date = lines[i + 1].date
          /\ lines[i] # lines[i + 1]

\* C35: when an accepted edit renders to fewer lines than the buffer holds for
\* its target, the first target lines take the messages of the replacement
\* one for one, every further target line keeps its place, date, prefix and
\* tags and gets the empty message, the other lines are left as they were,
\* and the buffer has as many lines as before.
C35_ShorterEditBlanks ==
    [][\A event \in EditEvents :
          LET found == Tagged(lines, IdTag(event.content.edits))
              body == event.content.body
          IN (SyncEdit(event) /\ last'.outcome = "replaced" /\ Len(found) > Len(body)) =>
                /\ Len(lines') = Len(lines)
                /\ \A k \in 1..Len(found) :
                      /\ lines'[found[k]].date = lines[found[k]].date
                      /\ lines'[found[k]].date_printed = lines[found[k]].date_printed
                      /\ IF k <= Len(body)
                         THEN lines'[found[k]].message = body[k]
                         ELSE lines'[found[k]] = [lines[found[k]] EXCEPT !.message = <<>>]
                /\ \A i \in 1..Len(lines) :
                      IdTag(event.content.edits) \notin lines[i].tags => lines'[i] = lines[i]]_vars
\* A two-line event has been replaced by one line: its first line holds the
\* new message and its second line is still there, with the empty message.
C35_Witness ==
    /\ last.op = "sync_edit"
    /\ last.outcome = "replaced"
    /\ \E i, j \in 1..Len(lines) :
          /\ i < j
          /\ IdTag(last.target) \in lines[i].tags
          /\ IdTag(last.target) \in lines[j].tags
          /\ lines[i].message = <<"a">>
          /\ lines[j].message = <<>>

\* The lines that show the message of transaction t: its local echo lines
\* and the lines printed for its event.
OwnLines(t) ==
    LET shown == {i \in 1..Len(lines) :
                     EchoTag(t) \in lines[i].tags \/ IdTag(OwnEventId(t)) \in lines[i].tags}
    IN [i \in shown |-> lines[i]]

\* C36: the confirmation of a send, by the direct response or by the live
\* event, whichever runs first, leaves exactly the rendered lines of the
\* message in the buffer, as rewritten echo lines or as appended lines and
\* never both; the handler that runs second changes no line, and from the
\* confirmation on the lines of the message stay as they are.
C36_RenderedOnce ==
    /\ [][\A t \in TxnIds : Confirms(t) =>
             /\ Cardinality(DOMAIN OwnLines(t)') = Len(ConfirmedLines(t))
             /\ (Tagged(lines', EchoTag(t)) = <<>>
                    \/ Tagged(lines', IdTag(OwnEventId(t))) = <<>>)
             /\ Len(lines') = (IF QueueEntry(outgoing_messages, t).echo
                               THEN Len(lines) ELSE Len(lines) + Len(ConfirmedLines(t)))]_vars
    /\ [][\A t \in TxnIds :
             (sends[t].confirmed = 1 /\ (SendMessageOk(t) \/ SyncOwnMessage(t))) =>
                 lines' = lines]_vars
    /\ [][\A t \in TxnIds : sends[t].confirmed = 1 => OwnLines(t)' = OwnLines(t)]_vars
\* The response confirmed a send without local echo by appending its line,
\* and the live event that came after it found nothing to do.
C36_Witness ==
    /\ last.op = "sync_own_message"
    /\ last.outcome = "absent"
    /\ sends[last.target].task = "done"
    /\ sends[last.target].confirmed = 1
    /\ Tagged(lines, EchoTag(last.target)) = <<>>
    /\ Len(Tagged(lines, IdTag(OwnEventId(last.target)))) = 1

\* Line i belongs to the run of lines tagged with the transaction id that
\* ends at the last line so tagged.
InEchoRun(buf, i, t) ==
    /\ EchoTag(t) \in buf[i].tags
    /\ \A j \in i..Len(buf) :
          (\E m \in j..Len(buf) : EchoTag(t) \in buf[m].tags) => EchoTag(t) \in buf[j].tags

\* C37: the confirmation of a send with local echo changes nothing of any
\* line but the message: tags, prefix, date and date_printed of every line are
\* as before, so the echo tag stays and no line gets the tag of the event id;
\* and a line whose message changes belongs to the run of echo lines that
\* ends at the last line tagged with the transaction id.
C37_ConfirmationFrame ==
    [][\A t \in TxnIds :
          (Confirms(t) /\ QueueEntry(outgoing_messages, t).echo) =>
             /\ Len(lines') = Len(lines)
             /\ \A i \in 1..Len(lines) :
                   /\ lines'[i] = [lines[i] EXCEPT !.message = lines'[i].message]
                   /\ IdTag(OwnEventId(t)) \notin lines'[i].tags
                   /\ lines'[i] # lines[i] => InEchoRun(lines, i, t)]_vars
\* The echo of a send has been rewritten: its line holds the message without
\* the colour of the echo, still carries the echo tag and the self tag and
\* not the tag of the event id, and the line above it belongs to another
\* event.
C37_Witness ==
    /\ last.outcome = "confirmed"
    /\ \E i \in 2..Len(lines) :
          /\ {EchoTag(last.target), SelfTag} \subseteq lines[i].tags
          /\ IdTag(OwnEventId(last.target)) \notin lines[i].tags
          /\ lines[i].message = <<"a">>
          /\ EchoTag(last.target) \notin lines[i - 1].tags

\* C38: a line that carries the redacted tag is found in the buffer after
\* every step, at its place or moved by a sort, with the tag and with the
\* message the redaction gave it.
C38_RedactedStays ==
    [][\A i \in 1..Len(lines) :
          RedactedTag \in lines[i].tags =>
             \E j \in 1..Len(lines') :
                /\ RedactedTag \in lines'[j].tags
                /\ lines'[j].message = lines[i].message
                /\ lines'[j].date = lines[i].date]_vars

\* The number of lines replace_local_echo visits: the run of lines tagged
\* with the transaction id that ends at the last line so tagged.
EchoRun(buf, t) ==
    LET found == Tagged(buf, EchoTag(t))
    IN Cardinality({k \in 1..Len(found) :
                      found[Len(found)] - found[k] = Len(found) - k})
\* A rendering of n lines.
Rendering(n) ==
    [prefix |-> Nick(OwnUser), message_timestamp |-> 1,
     lines |-> [i \in 1..n |-> [message |-> <<"a">>, tags |-> {SelfTag}]]]

====
